---------------------------- MODULE Spec2Model ----------------------------
(***************************************************************************)
(* State-machine model of the schwab-mcp remote server.                    *)
(*                                                                         *)
(* Part 1: SchwabMCPOAuthProvider (src/src/schwab_mcp/remote/oauth.py),    *)
(* the in-memory OAuth 2.1 authorization server: client registration,      *)
(* consent states, authorization codes, access and refresh tokens.         *)
(*                                                                         *)
(* Every method of the provider is a coroutine without an await inside     *)
(* (handle_consent awaits the form before it touches a store), so each     *)
(* method body is one atomic action.  A token request is two calls of the  *)
(* provider (load_..., then exchange_...) made by one request task, and    *)
(* other tasks may run between the two.                                    *)
(*                                                                         *)
(* Part 2: RateLimitMiddleware (src/src/schwab_mcp/remote/rate_limit.py),  *)
(* the sliding-window rate limiter.  _is_rate_limited is a plain function  *)
(* and __call__ awaits only after it has returned, so the check of one     *)
(* request is one atomic action.                                           *)
(***************************************************************************)
EXTENDS Integers, Sequences, FiniteSets, TLC

(***************************************************************************)
(* Program constants.                                                      *)
(***************************************************************************)
ACCESS_TOKEN_TTL == 86400

\* _OAUTH_STATE_TTL_SECONDS of the admin service
OAUTH_STATE_TTL_SECONDS == 600

AUTH_CODE_TTL == 300

REFRESH_TOKEN_TTL == 30 * 86400

MAX_CLIENTS == 10

MAX_AUTH_CODES == 50

MAX_ACCESS_TOKENS == 50

MAX_REFRESH_TOKENS == 50

MAX_STATE_MAPPINGS == 50

MAX_TRACKED_CLIENTS == 1000

(***************************************************************************)
(* Bounds of the model.                                                    *)
(***************************************************************************)
\* The clock counts 1/Resolution seconds, so that time.time() has a
\* fractional part that int() cuts off.
Resolution == 2

\* Steps of one behaviour that make the state grow: draws of a state value,
\* of an authorization code or of a token pair, and advances of the clock.
Budget == 4

\* How far the capacity specifications go on past a cap.
Slack == 2

\* max_requests and window_seconds of the first rule of the limiter.
MaxRequests == 2

WindowSeconds == 1

\* Requests and advances of the monotonic clock in one behaviour of the
\* limiter.
LimiterBudget == 6

\* Write tool invocations in a run.
GateCalls == 2

\* config.discord_timeout, in seconds
GateTimeout == 2

(***************************************************************************)
(* Values.                                                                 *)
(***************************************************************************)
\* Strings the server builds are <<prefix, n>>: secrets.token_hex is a
\* counter per prefix, its n-th draw is the value n and no draw repeats.
\* Strings a caller chooses are <<"client", k>>.  None and the empty string
\* are <<>>.
Str(prefix, n) == <<prefix, n>>

None == <<>>

\* A client object whose client_id is empty or missing.
NoId == None

Tasks == {"t1", "t2"}

ClientStates == {Str("client", 1)}

\* AuthorizationParams of two authorization requests that differ in every
\* field; state is filled in by the caller.
\* A URL value (pydantic AnyUrl): scheme, host and path; the path of a URL
\* value is never empty.
Url(scheme, host, path) == [scheme |-> scheme, host |-> host, path |-> path]

ParamsA == [redirect_uri |-> Url("https", "a.example", "/cb"),
            code_challenge |-> "challenge-a",
            redirect_uri_provided_explicitly |-> TRUE,
            resource |-> None]

ParamsB == [redirect_uri |-> Url("http", "localhost", "/callback"),
            code_challenge |-> "challenge-b",
            redirect_uri_provided_explicitly |-> FALSE,
            resource |-> Str("https://mcp.example/", 1)]

WithState(params, state) ==
    [redirect_uri |-> params.redirect_uri,
     code_challenge |-> params.code_challenge,
     redirect_uri_provided_explicitly |-> params.redirect_uri_provided_explicitly,
     resource |-> params.resource,
     state |-> state]

\* form.get("action"): a missing field compares unequal to "approve"
FormActions == {"approve", "deny", "Approve", "<missing>"}

ScopeRequests == {{}, {"mcp"}, {"admin"}}

Seconds(n) == n * Resolution

\* int(time.time())
IntTime(t) == (t \div Resolution) * Resolution

TickSteps == {1, Seconds(AUTH_CODE_TTL), Seconds(ACCESS_TOKEN_TTL),
              Seconds(REFRESH_TOKEN_TTL)}

\* str(url): the text of a URL value, as <<scheme, host, path>>
UrlStr(u) == <<u.scheme, u.host, u.path>>

\* AnyHttpUrl(text): parses the text of an http(s) URL; an empty path is
\* normalised to "/".
AnyHttpUrl(text) == Url(text[1], text[2], IF text[3] = "" THEN "/" ELSE text[3])

\* construct_redirect_uri(redirect_uri, **params): the redirect URI with the
\* parameters added to its query.
construct_redirect_uri(redirect_uri, params) ==
    [base |-> redirect_uri, query |-> params]

\* dict helpers
Remove(d, k) == [x \in DOMAIN d \ {k} |-> d[x]]

Put(d, k, v) == [x \in DOMAIN d \cup {k} |-> IF x = k THEN v ELSE d[x]]

EmptyDict == [x \in {} |-> 0]

(***************************************************************************)
(* The limiter's configuration and inputs.                                 *)
(***************************************************************************)
\* A path is the sequence of its characters.
PathAB == <<"/", "a", "b">>

PathA == <<"/", "a">>

PathABC == <<"/", "a", "b", "c">>

PathX == <<"/", "x">>

Paths == {PathA, PathABC, PathX}

\* _RateLimitRule
Rule(path_prefix, max_requests, window_seconds) ==
    [path_prefix |-> path_prefix, max_requests |-> max_requests,
     window_seconds |-> window_seconds]

\* self.rules, in list order: the second prefix is a prefix of the first.
rules == <<Rule(PathAB, MaxRequests, WindowSeconds),
           Rule(PathA, 1, WindowSeconds + 1)>>

\* request.client: an address, or None
Addresses == {"10.0.0.1"}

RequestClients == {<<a>> : a \in Addresses} \cup {None}

ScopeTypes == {"http", "websocket"}

\* request.client.host of the n-th of many clients
Address(n) == "10.0.0." \o ToString(n)

VARIABLES
    clients,         \* _clients: client_id -> client info
    auth_codes,      \* _auth_codes: code -> AuthorizationCode
    access_tokens,   \* _access_tokens: token -> AccessToken
    refresh_tokens,  \* _refresh_tokens: token -> RefreshToken
    state_mapping,   \* _state_mapping, in insertion order: sequence of entries
    now,             \* time.time(), in 1/Resolution seconds
    minted,          \* number of secrets.token_hex draws so far, per prefix
    ticks,           \* number of clock advances so far
    task,            \* per request task: what its load_... call returned
    response,        \* what the most recent call returned or raised
    granted,         \* history: token pairs returned, per code / refresh token
    windows,         \* _windows: (client_ip, path_prefix) -> timestamps
    monotonic,       \* time.monotonic(), in seconds
    reply,           \* what the middleware did with the most recent request
    history,         \* history: per window key, every checked request
    mounted,         \* the lifespan has started: "/mcp" is among app.routes
    served,          \* the most recent request of the application, and the
                     \* route that handled it
    manager,         \* what _create_approval_manager returned
    pending,         \* human review: approval id -> the request that waits
    decided,         \* history: approval id -> the decisions produced for it
    executed,        \* history: the operations handed to the brokerage client
    log,             \* the warning-level entries of the approvals logger
    oauth_state,     \* admin service: _oauth_state: state -> context, timestamp
    written          \* history: the tokens the admin service wrote to storage

limiter == <<windows, monotonic, reply, history>>

admin == <<oauth_state, written>>

serving == <<mounted, served, manager, pending, decided, executed, log, admin>>

vars == <<clients, auth_codes, access_tokens, refresh_tokens, state_mapping,
          now, minted, ticks, task, response, granted>>

stores == <<clients, auth_codes, access_tokens, refresh_tokens, state_mapping>>

Idle == [pc |-> "idle", client |-> NoId, loaded |-> <<>>, scopes |-> {}]

Resp(op, res) == [op |-> op, res |-> res, location |-> None]

\* RedirectResponse(url=location, status_code=302)
Redirect(op, res, location) == [op |-> op, res |-> res, location |-> location]

Init ==
    /\ clients = EmptyDict
    /\ auth_codes = EmptyDict
    /\ access_tokens = EmptyDict
    /\ refresh_tokens = EmptyDict
    /\ state_mapping = <<>>
    /\ now = 0
    /\ minted = [hex |-> 0, code |-> 0, pair |-> 0]
    /\ ticks = 0
    /\ task = [t \in Tasks |-> Idle]
    /\ response = Resp("__init__", "None")
    /\ granted = EmptyDict
    /\ windows = EmptyDict
    /\ monotonic = 0
    /\ reply = [status |-> "none", checked |-> {}]
    /\ history = EmptyDict
    /\ mounted = FALSE
    /\ served = [path |-> None, bearer |-> None, handler |-> None]
    /\ manager = [kind |-> "none", allow_write |-> FALSE, approver_ids |-> {},
                  timeout_seconds |-> 0]
    /\ pending = EmptyDict
    /\ decided = EmptyDict
    /\ executed = {}
    /\ log = <<>>
    /\ oauth_state = EmptyDict
    /\ written = <<>>

\* Mutant of Unexpired: an entry is kept at the instant of its expiry.
Unexpired_Inclusive(v, t) == v.expires_at = 0 \/ v.expires_at >= t

\* `not v.expires_at or v.expires_at > now`
Unexpired(v, t) == v.expires_at = 0 \/ v.expires_at > t

\* One comprehension of _evict_expired.
Sweep(d, t) == [k \in {x \in DOMAIN d : Unexpired(d[x], t)} |-> d[k]]

\* `expires_at and expires_at < time.time()` of load_access_token and
\* load_refresh_token.
LookupExpired(v, t) == v.expires_at # 0 /\ v.expires_at < t

\* keys of the ordered dict _state_mapping
StateKeys == {state_mapping[i].state : i \in 1..Len(state_mapping)}

StateIndex(s) == CHOOSE i \in 1..Len(state_mapping) : state_mapping[i].state = s

StateData(s) == state_mapping[StateIndex(s)]

\* Mutant of SetState: an existing key moves to the end.
SetState_MoveToEnd(m, e) ==
    Append(SelectSeq(m, LAMBDA x : x.state # e.state), e)

\* dict assignment keeps the position of an existing key and appends a new one
SetState(m, e) ==
    IF \E i \in 1..Len(m) : m[i].state = e.state
    THEN [i \in 1..Len(m) |-> IF m[i].state = e.state THEN e ELSE m[i]]
    ELSE Append(m, e)

\* dict.get: an Optional value is <<v>>, or None
get_client(id) == IF id \in DOMAIN clients THEN <<clients[id]>> ELSE None

\* Mutant of RegistrationFull: the guard forgets that a known id is an update.
RegistrationFull_CountsUpdates(id) ==
    Cardinality(DOMAIN clients) >= MAX_CLIENTS

\* The guard of register_client that raises "Maximum number of registered
\* clients reached".
RegistrationFull(id) ==
    id \notin DOMAIN clients /\ Cardinality(DOMAIN clients) >= MAX_CLIENTS

\* Mutant of StoreClient: the store is replaced instead of updated.
StoreClient_Replacing(id, meta) == [x \in {id} |-> meta]

\* `self._clients[client_info.client_id] = client_info`
StoreClient(id, meta) == Put(clients, id, meta)

register_client(id, meta) ==
    /\ IF id = NoId
       THEN /\ response' = Resp("register_client", "ValueError: no client_id")
            /\ UNCHANGED clients
       ELSE IF RegistrationFull(id)
       THEN /\ response' = Resp("register_client", "ValueError: maximum")
            /\ UNCHANGED clients
       ELSE /\ clients' = StoreClient(id, meta)
            /\ response' = Resp("register_client", "ok")
    /\ UNCHANGED <<auth_codes, access_tokens, refresh_tokens, state_mapping,
                   now, minted, ticks, task, granted>>

\* Mutant of EvictOldestState: the comparison is > where the code has >=.
EvictOldestState_OffByOne(m) ==
    IF Len(m) > MAX_STATE_MAPPINGS THEN Tail(m) ELSE m

\* The capacity step of authorize: drop the oldest entry of a full mapping.
EvictOldestState(m) ==
    IF Len(m) >= MAX_STATE_MAPPINGS THEN Tail(m) ELSE m

\* str(bool)
BoolStr(b) == IF b THEN "True" ELSE "False"

\* History: when an entry of _state_mapping was created, as its place among
\* the draws of state values: the n-th drawn state has 2n, an entry made for
\* a caller's state after the n-th draw has 2n + 1.
CreationStamp(params) ==
    IF params.state = None THEN 2 * (minted.hex + 1) ELSE 2 * minted.hex + 1

\* authorize(client, params), client being a registered client's id.
authorize(c, params) ==
    /\ c \in DOMAIN clients
    /\ LET state == IF params.state = None
                    THEN Str("hex", minted.hex + 1) ELSE params.state
           entry == [state |-> state,
                     created |-> CreationStamp(params),
                     redirect_uri |-> UrlStr(params.redirect_uri),
                     code_challenge |-> params.code_challenge,
                     redirect_uri_provided_explicitly |->
                         BoolStr(params.redirect_uri_provided_explicitly),
                     client_id |-> c,
                     resource |-> params.resource]
       IN /\ state_mapping' = SetState(EvictOldestState(state_mapping), entry)
          /\ minted' = IF params.state = None
                       THEN [minted EXCEPT !.hex = @ + 1] ELSE minted
          /\ response' = Resp("authorize", "consent_url")
    /\ auth_codes' = Sweep(auth_codes, now)
    /\ access_tokens' = Sweep(access_tokens, now)
    /\ refresh_tokens' = Sweep(refresh_tokens, now)
    /\ UNCHANGED <<clients, now, ticks, task, granted>>

\* Mutant of ConsentPageStatus: the page is rendered for any state.
ConsentPageStatus_Always(state) == "200"

\* `state not in self._state_mapping` answers 400, else the page
ConsentPageStatus(state) == IF state \in StateKeys THEN "200" ELSE "400"

get_consent_page(state) ==
    /\ response' = Resp("get_consent_page", ConsentPageStatus(state))
    /\ UNCHANGED <<stores, now, minted, ticks, task, granted>>

\* Mutant of DelState: the entry stays in the mapping.
DelState_Kept(m, s) == m

\* `del self._state_mapping[state]`
DelState(m, s) == SelectSeq(m, LAMBDA e : e.state # s)

\* Mutant of DeniedUrl: the redirect loses the state parameter.
DeniedUrl_NoState(data) ==
    construct_redirect_uri(data.redirect_uri, {<<"error", "access_denied">>})

\* The redirect of a denied consent.
DeniedUrl(data) ==
    construct_redirect_uri(data.redirect_uri,
                           {<<"error", "access_denied">>, <<"state", data.state>>})

\* The redirect of an approved consent.
FinalUrl(data, code) ==
    construct_redirect_uri(data.redirect_uri,
                           {<<"code", code>>, <<"state", data.state>>})

\* Mutant of NewAuthCode: the resource indicator of the request is dropped.
NewAuthCode_NoResource(data, code, t) ==
    [code |-> code,
     client_id |-> data.client_id,
     redirect_uri |-> AnyHttpUrl(data.redirect_uri),
     redirect_uri_provided_explicitly |->
         (data.redirect_uri_provided_explicitly = "True"),
     expires_at |-> t + Seconds(AUTH_CODE_TTL),
     scopes |-> {"mcp"},
     code_challenge |-> data.code_challenge,
     resource |-> None]

\* The AuthorizationCode an approval builds from the state data at time t.
NewAuthCode(data, code, t) ==
    [code |-> code,
     client_id |-> data.client_id,
     redirect_uri |-> AnyHttpUrl(data.redirect_uri),
     redirect_uri_provided_explicitly |->
         (data.redirect_uri_provided_explicitly = "True"),
     expires_at |-> t + Seconds(AUTH_CODE_TTL),
     scopes |-> {"mcp"},
     code_challenge |-> data.code_challenge,
     resource |-> data.resource]

\* Mutant of handle_consent: only an explicit "deny" is a denial.
handle_consent_Lenient(state, action) ==
    /\ IF state = None \/ state \notin StateKeys
       THEN /\ response' = Resp("handle_consent", "400")
            /\ UNCHANGED <<auth_codes, state_mapping, minted>>
       ELSE LET data == StateData(state) IN
            IF action = "deny"
            THEN /\ response' = Redirect("handle_consent", "302 access_denied",
                                         DeniedUrl(data))
                 /\ state_mapping' = DelState(state_mapping, state)
                 /\ UNCHANGED <<auth_codes, minted>>
            ELSE /\ LET code == Str("schwab_mcp_", minted.code + 1)
                    IN /\ auth_codes' =
                              Put(auth_codes, code, NewAuthCode(data, code, now))
                       /\ response' = Redirect("handle_consent", "302 code",
                                               FinalUrl(data, code))
                 /\ state_mapping' = DelState(state_mapping, state)
                 /\ minted' = [minted EXCEPT !.code = @ + 1]
    /\ UNCHANGED <<clients, access_tokens, refresh_tokens, now, ticks, task,
                   granted>>

\* handle_consent(request) with the form fields state and action.
handle_consent(state, action) ==
    /\ IF state = None \/ state \notin StateKeys
       THEN /\ response' = Resp("handle_consent", "400")
            /\ UNCHANGED <<auth_codes, state_mapping, minted>>
       ELSE LET data == StateData(state) IN
            IF action # "approve"
            THEN /\ response' = Redirect("handle_consent", "302 access_denied",
                                         DeniedUrl(data))
                 /\ state_mapping' = DelState(state_mapping, state)
                 /\ UNCHANGED <<auth_codes, minted>>
            ELSE /\ LET code == Str("schwab_mcp_", minted.code + 1)
                    IN /\ auth_codes' =
                              Put(auth_codes, code, NewAuthCode(data, code, now))
                       /\ response' = Redirect("handle_consent", "302 code",
                                               FinalUrl(data, code))
                 /\ state_mapping' = DelState(state_mapping, state)
                 /\ minted' = [minted EXCEPT !.code = @ + 1]
    /\ UNCHANGED <<clients, access_tokens, refresh_tokens, now, ticks, task,
                   granted>>

\* The request task t calls load_authorization_code(client, code).
load_authorization_code(t, c, code) ==
    /\ task[t].pc = "idle"
    /\ c \in DOMAIN clients
    /\ IF code \in DOMAIN auth_codes
       THEN /\ task' = [task EXCEPT ![t] = [pc |-> "code_loaded", client |-> c,
                                            loaded |-> auth_codes[code],
                                            scopes |-> {}]]
            /\ response' = Resp("load_authorization_code", "found")
       ELSE /\ response' = Resp("load_authorization_code", "None")
            /\ UNCHANGED task
    /\ UNCHANGED <<stores, now, minted, ticks, granted>>

\* `authorization_code.code not in self._auth_codes`
CodeUnknown(ac) == ac.code \notin DOMAIN auth_codes

Count(g, k) == IF k \in DOMAIN g THEN g[k] ELSE 0

\* The request task t calls exchange_authorization_code with the object its
\* load_authorization_code returned.
exchange_authorization_code(t) ==
    /\ task[t].pc = "code_loaded"
    /\ task' = [task EXCEPT ![t] = Idle]
    /\ LET ac == task[t].loaded
           c == task[t].client
       IN IF CodeUnknown(ac)
          THEN /\ response' = Resp("exchange_authorization_code",
                                   "ValueError: Invalid authorization code")
               /\ UNCHANGED <<auth_codes, access_tokens, refresh_tokens, minted,
                              granted>>
          ELSE IF c = NoId
          THEN /\ response' = Resp("exchange_authorization_code",
                                   "ValueError: No client_id provided")
               /\ UNCHANGED <<auth_codes, access_tokens, refresh_tokens, minted,
                              granted>>
          ELSE LET codes1 == Sweep(auth_codes, now)
                   access_token_str == Str("smcp_at_", minted.pair + 1)
                   refresh_token_str == Str("smcp_rt_", minted.pair + 1)
                   at == [token |-> access_token_str,
                          client_id |-> c,
                          scopes |-> ac.scopes,
                          expires_at |-> IntTime(now) + Seconds(ACCESS_TOKEN_TTL),
                          resource |-> ac.resource]
                   rt == [token |-> refresh_token_str,
                          client_id |-> c,
                          scopes |-> ac.scopes,
                          expires_at |-> IntTime(now) + Seconds(REFRESH_TOKEN_TTL)]
               IN /\ access_tokens' =
                         Put(Sweep(access_tokens, now), access_token_str, at)
                  /\ refresh_tokens' =
                         Put(Sweep(refresh_tokens, now), refresh_token_str, rt)
                  /\ minted' = [minted EXCEPT !.pair = @ + 1]
                  /\ IF ac.code \in DOMAIN codes1
                     THEN /\ auth_codes' = Remove(codes1, ac.code)
                          /\ response' = Resp("exchange_authorization_code",
                                              "OAuthToken")
                          /\ granted' = Put(granted, ac.code,
                                            Count(granted, ac.code) + 1)
                     \* `del self._auth_codes[...]` of a key the sweep removed
                     ELSE /\ auth_codes' = codes1
                          /\ response' = Resp("exchange_authorization_code",
                                              "KeyError")
                          /\ UNCHANGED granted
    /\ UNCHANGED <<clients, state_mapping, now, ticks>>

load_access_token(token) ==
    /\ IF token \notin DOMAIN access_tokens
       THEN /\ response' = Resp("load_access_token", "None")
            /\ UNCHANGED access_tokens
       ELSE IF LookupExpired(access_tokens[token], now)
       THEN /\ access_tokens' = Remove(access_tokens, token)
            /\ response' = Resp("load_access_token", "None")
       ELSE /\ response' = Resp("load_access_token", "found")
            /\ UNCHANGED access_tokens
    /\ UNCHANGED <<clients, auth_codes, refresh_tokens, state_mapping, now,
                   minted, ticks, task, granted>>

\* The request task t calls load_refresh_token(client, token); scopes are the
\* scopes of the token request, passed on to exchange_refresh_token.
load_refresh_token(t, c, token, scopes) ==
    /\ task[t].pc = "idle"
    /\ c \in DOMAIN clients
    /\ IF token \notin DOMAIN refresh_tokens
       THEN /\ response' = Resp("load_refresh_token", "None")
            /\ UNCHANGED <<refresh_tokens, task>>
       ELSE IF LookupExpired(refresh_tokens[token], now)
       THEN /\ refresh_tokens' = Remove(refresh_tokens, token)
            /\ response' = Resp("load_refresh_token", "None")
            /\ UNCHANGED task
       ELSE /\ task' = [task EXCEPT ![t] = [pc |-> "refresh_loaded",
                                            client |-> c,
                                            loaded |-> refresh_tokens[token],
                                            scopes |-> scopes]]
            /\ response' = Resp("load_refresh_token", "found")
            /\ UNCHANGED refresh_tokens
    /\ UNCHANGED <<clients, auth_codes, access_tokens, state_mapping, now,
                   minted, ticks, granted>>

\* `scopes or refresh_token.scopes`
EffectiveScopes(scopes, rt) == IF scopes # {} THEN scopes ELSE rt.scopes

\* Mutant of RevokeOld: the rotation keeps the presented refresh token.
RevokeOld_Kept(d, rt) == d

\* "Revoke old refresh token"
RevokeOld(d, rt) == IF rt.token \in DOMAIN d THEN Remove(d, rt.token) ELSE d

\* The request task t calls exchange_refresh_token with the object its
\* load_refresh_token returned.
exchange_refresh_token(t) ==
    /\ task[t].pc = "refresh_loaded"
    /\ task' = [task EXCEPT ![t] = Idle]
    /\ LET old == task[t].loaded
           c == task[t].client
       IN IF c = NoId
          THEN /\ response' = Resp("exchange_refresh_token",
                                   "ValueError: No client_id provided")
               /\ UNCHANGED <<auth_codes, access_tokens, refresh_tokens, minted,
                              granted>>
          ELSE LET access_token_str == Str("smcp_at_", minted.pair + 1)
                   new_refresh_str == Str("smcp_rt_", minted.pair + 1)
                   effective_scopes == EffectiveScopes(task[t].scopes, old)
                   at == [token |-> access_token_str,
                          client_id |-> c,
                          scopes |-> effective_scopes,
                          expires_at |-> IntTime(now) + Seconds(ACCESS_TOKEN_TTL),
                          resource |-> None]
                   rt == [token |-> new_refresh_str,
                          client_id |-> c,
                          scopes |-> effective_scopes,
                          expires_at |-> IntTime(now) + Seconds(REFRESH_TOKEN_TTL)]
               IN /\ auth_codes' = Sweep(auth_codes, now)
                  /\ access_tokens' =
                         Put(Sweep(access_tokens, now), access_token_str, at)
                  /\ refresh_tokens' =
                         Put(RevokeOld(Sweep(refresh_tokens, now), old),
                             new_refresh_str, rt)
                  /\ minted' = [minted EXCEPT !.pair = @ + 1]
                  /\ response' = Resp("exchange_refresh_token", "OAuthToken")
                  /\ granted' = Put(granted, old.token,
                                    Count(granted, old.token) + 1)
    /\ UNCHANGED <<clients, state_mapping, now, ticks>>

\* Mutant of Pop: a present key takes every other key with it.
Pop_Clear(d, k) == IF k \in DOMAIN d THEN EmptyDict ELSE d

\* dict.pop(token, None)
Pop(d, k) == IF k \in DOMAIN d THEN Remove(d, k) ELSE d

revoke_token(token) ==
    /\ access_tokens' = Pop(access_tokens, token)
    /\ refresh_tokens' = Pop(refresh_tokens, token)
    /\ response' = Resp("revoke_token", "ok")
    /\ UNCHANGED <<clients, auth_codes, state_mapping, now, minted, ticks, task,
                   granted>>

\* The wall clock advances by d.
Tick(d) ==
    /\ now' = now + d
    /\ ticks' = ticks + 1
    /\ UNCHANGED <<stores, minted, task, response, granted>>

\* Every string the server has built so far with a prefix; kind is the
\* counter of the prefix.
Built(prefix, kind) == {Str(prefix, n) : n \in 1..minted[kind]}

StateInputs == ClientStates \cup Built("hex", "hex") \cup {None}

ClientId(k) == Str("client_id", k)

\* Client ids are interchangeable: a registration under a new id takes the
\* first id not yet registered.
NewClientId == ClientId(Cardinality(DOMAIN clients) + 1)

\* Draws and clock advances so far.
Used == minted.hex + minted.code + minted.pair + ticks

Register(ids, metas) ==
    /\ \E id \in ids, meta \in metas : register_client(id, meta)
    /\ UNCHANGED <<limiter, serving>>

Authorize(budget, ids, params, states) ==
    \E c \in DOMAIN clients \cap ids, p \in params, s \in states :
        /\ s = None => Used < budget
        /\ authorize(c, WithState(p, s))
        /\ UNCHANGED <<limiter, serving>>

ConsentPage ==
    /\ \E s \in StateInputs : get_consent_page(s)
    /\ UNCHANGED <<limiter, serving>>

Consent(budget) ==
    \E s \in StateInputs, a \in FormActions :
        /\ Used < budget
        /\ handle_consent(s, a)
        /\ UNCHANGED <<limiter, serving>>

LoadCode(tasks, ids) ==
    /\ \E t \in tasks, c \in DOMAIN clients \cap ids,
          code \in Built("schwab_mcp_", "code") :
           load_authorization_code(t, c, code)
    /\ UNCHANGED <<limiter, serving>>

ExchangeCode(budget, tasks) ==
    /\ \E t \in tasks : Used < budget /\ exchange_authorization_code(t)
    /\ UNCHANGED <<limiter, serving>>

LoadAccess ==
    /\ \E token \in Built("smcp_at_", "pair") : load_access_token(token)
    /\ UNCHANGED <<limiter, serving>>

LoadRefresh(tasks, ids, requests) ==
    /\ \E t \in tasks, c \in DOMAIN clients \cap ids,
          token \in Built("smcp_rt_", "pair"), sc \in requests :
           load_refresh_token(t, c, token, sc)
    /\ UNCHANGED <<limiter, serving>>

ExchangeRefresh(budget, tasks) ==
    /\ \E t \in tasks : Used < budget /\ exchange_refresh_token(t)
    /\ UNCHANGED <<limiter, serving>>

Revoke ==
    /\ \E token \in Built("smcp_at_", "pair") \cup Built("smcp_rt_", "pair") :
           revoke_token(token)
    /\ UNCHANGED <<limiter, serving>>

Clock(budget, steps) ==
    /\ \E d \in steps : Used < budget /\ Tick(d)
    /\ UNCHANGED <<limiter, serving>>

(***************************************************************************)
(* RateLimitMiddleware.                                                    *)
(***************************************************************************)
\* str.startswith
StartsWith(path, prefix) ==
    /\ Len(prefix) <= Len(path)
    /\ SubSeq(path, 1, Len(prefix)) = prefix

\* Mutant of Visited: the loop goes on after a matching rule.
Visited_All(path) == 1..Len(rules)

\* The rules of the list that __call__'s loop looks at for a path: all up
\* to the first whose prefix matches (the loop breaks or returns there).
Visited(path) ==
    {i \in 1..Len(rules) :
        \A j \in 1..(i - 1) : ~StartsWith(path, rules[j].path_prefix)}

\* The rules of the list that the loop hands to _is_rate_limited.
Checked(path) ==
    {i \in Visited(path) : StartsWith(path, rules[i].path_prefix)}

\* Mutant of ClientIp: every client is counted as the same one.
ClientIp_Shared(client) == "unknown"

\* `request.client.host if request.client else "unknown"`
ClientIp(client) == IF client = None THEN "unknown" ELSE client[1]

\* self._windows[key] of the defaultdict: a missing key gets an empty window
Window(key) == IF key \in DOMAIN windows THEN windows[key] ELSE <<>>

\* Mutant of Recent: the cutoff lies one second inside the window.
Recent_Eager(timestamps, rule, t) ==
    SelectSeq(timestamps, LAMBDA x : x > t - rule.window_seconds + 1)

\* "Evict old timestamps outside the window"
Recent(timestamps, rule, t) ==
    SelectSeq(timestamps, LAMBDA x : x > t - rule.window_seconds)

\* Mutant of Limited: the limit is one request too high.
Limited_OffByOne(timestamps, rule) == Len(timestamps) > rule.max_requests

\* `len(window.timestamps) >= rule.max_requests`
Limited(timestamps, rule) == Len(timestamps) >= rule.max_requests

\* max(r.window_seconds for r in self.rules)
MaxWindow ==
    CHOOSE w \in {rules[i].window_seconds : i \in 1..Len(rules)} :
        \A i \in 1..Len(rules) : rules[i].window_seconds <= w

\* Mutant of evict_stale_clients: the cutoff is one largest window, not two.
evict_stale_clients_Single(w, t) ==
    LET cutoff == t - MaxWindow
        stale == {k \in DOMAIN w : w[k] = <<>> \/ w[k][Len(w[k])] < cutoff}
    IN [k \in DOMAIN w \ stale |-> w[k]]

\* Mutant of evict_stale_clients: nothing is removed.
evict_stale_clients_None(w, t) == w

\* _evict_stale_clients(now)
evict_stale_clients(w, t) ==
    LET cutoff == t - MaxWindow * 2
        stale == {k \in DOMAIN w : w[k] = <<>> \/ w[k][Len(w[k])] < cutoff}
    IN [k \in DOMAIN w \ stale |-> w[k]]

\* Mutant of Recorded: a rejected request is recorded as well.
Recorded_Always(timestamps, rule, t) == Append(timestamps, t)

\* The window's timestamps after the check: the request is recorded unless
\* it is rejected.
Recorded(timestamps, rule, t) ==
    IF Limited(timestamps, rule) THEN timestamps ELSE Append(timestamps, t)

\* _is_rate_limited(client_ip, rule), called from __call__ for the rule
\* with index i.
is_rate_limited(client_ip, i) ==
    LET rule == rules[i]
        key == <<client_ip, rule.path_prefix>>
        recent == Recent(Window(key), rule, monotonic)
        limited == Limited(recent, rule)
        stored == Put(windows, key, Recorded(recent, rule, monotonic))
    IN /\ windows' = IF ~limited /\ Cardinality(DOMAIN stored) > MAX_TRACKED_CLIENTS
                     THEN evict_stale_clients(stored, monotonic)
                     ELSE stored
       /\ reply' = [status |-> IF limited THEN "429" ELSE "forwarded",
                    checked |-> {i}]
       /\ history' = Put(history, key,
                         Append(IF key \in DOMAIN history THEN history[key]
                                                          ELSE <<>>,
                                [at |-> monotonic, limited |-> limited]))

\* RateLimitMiddleware.__call__(scope, receive, send)
call(scope_type, client, path) ==
    /\ IF scope_type # "http" \/ Checked(path) = {}
       THEN /\ reply' = [status |-> "forwarded", checked |-> {}]
            /\ UNCHANGED <<windows, history>>
       ELSE \E i \in Checked(path) : is_rate_limited(ClientIp(client), i)
    /\ UNCHANGED <<monotonic, vars, serving>>

\* The monotonic clock advances by d seconds.
Elapse(d) ==
    /\ monotonic' = monotonic + d
    /\ UNCHANGED <<windows, reply, history, vars, serving>>

\* Requests checked against a rule so far.
Requests ==
    LET RECURSIVE Sum(_)
        Sum(ks) == IF ks = {} THEN 0
                   ELSE LET k == CHOOSE x \in ks : TRUE
                        IN Len(history[k]) + Sum(ks \ {k})
    IN Sum(DOMAIN history)

Call(budget, types, senders, paths) ==
    \E ty \in types, c \in senders, p \in paths :
        /\ Requests + monotonic < budget
        /\ call(ty, c, p)

Monotonic(budget, steps) ==
    \E d \in steps : Requests + monotonic + d <= budget /\ Elapse(d)

\* The least time after which a client that sent a request at time 0 has been
\* idle for longer than twice the largest window.
IdleSeconds == 2 * MaxWindow + 1

\* A client that has sent no request yet sends its first one.
Arrive(limit, until) ==
    /\ Cardinality(DOMAIN history) < limit
    /\ monotonic <= until
    /\ call("http", <<Address(Cardinality(DOMAIN history) + 1)>>, PathA)

\* No request arrives for d seconds, while few clients are known.
Pause(early, until, d) ==
    /\ Cardinality(DOMAIN history) <= early
    /\ monotonic + d <= until
    /\ Elapse(d)

(***************************************************************************)
(* The application that create_app builds. A path is the sequence of its   *)
(* segments.                                                               *)
(***************************************************************************)
\* DEFAULT_RULES
DEFAULT_RULES ==
    <<Rule(<<"register">>, 10, 60), Rule(<<"token">>, 20, 60),
      Rule(<<"authorize">>, 20, 60), Rule(<<"consent">>, 20, 60),
      Rule(<<"mcp">>, 120, 60)>>

\* all_routes: the routes of create_auth_routes, then the consent routes
\* and the health check
all_routes ==
    {<<"authorize">>, <<"token">>, <<"register">>, <<"consent">>,
     <<"consent", "approve">>, <<"health">>}

\* Starlette(routes=all_routes, lifespan=lifespan), with Mount("/mcp")
\* appended by the lifespan: the route that handles a path, or None.
Handler(path) ==
    IF path \in all_routes THEN path
    ELSE IF mounted /\ StartsWith(path, <<"mcp">>) THEN <<"mcp">>
    ELSE None

\* The identities that respond in the reviewer channel: the first is on the
\* allow-list of the configuration.
Reviewers == {7}

Identities == Reviewers \cup {8}

\* Mutant of create_approval_manager: every identity is an approver.
create_approval_manager_Open(config) ==
    IF config.jesus_take_the_wheel
    THEN [kind |-> "NoOp", allow_write |-> TRUE, approver_ids |-> {},
          timeout_seconds |-> 0]
    ELSE IF config.discord /\ config.discord_approvers # {}
    THEN [kind |-> "Discord", allow_write |-> TRUE,
          approver_ids |-> Identities,
          timeout_seconds |-> config.discord_timeout]
    ELSE [kind |-> "NoOp", allow_write |-> FALSE, approver_ids |-> {},
          timeout_seconds |-> 0]

\* _create_approval_manager(config)
create_approval_manager(config) ==
    IF config.jesus_take_the_wheel
    THEN [kind |-> "NoOp", allow_write |-> TRUE, approver_ids |-> {},
          timeout_seconds |-> 0]
    ELSE IF config.discord /\ config.discord_approvers # {}
    THEN [kind |-> "Discord", allow_write |-> TRUE,
          approver_ids |-> config.discord_approvers,
          timeout_seconds |-> config.discord_timeout]
    ELSE [kind |-> "NoOp", allow_write |-> FALSE, approver_ids |-> {},
          timeout_seconds |-> 0]

\* The lifespan of the application, up to its yield.
lifespan(config) ==
    /\ ~mounted
    /\ mounted' = TRUE
    /\ manager' = create_approval_manager(config)
    /\ UNCHANGED <<served, pending, decided, executed, log, vars, limiter, admin>>

\* The application is called with an HTTP request: the router of
\* Starlette(routes=all_routes) hands it to the route of its path. The
\* application has no middleware.
app(path, bearer) ==
    /\ served' = [path |-> path, bearer |-> bearer, handler |-> Handler(path)]
    /\ UNCHANGED <<mounted, manager, pending, decided, executed, log, vars,
                   limiter, admin>>

Startup(configs) == \E config \in configs : lifespan(config)

\* The approval flags of the CLI `server` command: discord_token and
\* discord_channel_id as truth values, approver_values as the set of ids
\* given by flags or environment.
Flags(jesus_take_the_wheel, discord_token, discord_channel_id, approver_values, discord_timeout) ==
    [jesus_take_the_wheel |-> jesus_take_the_wheel,
     discord_token |-> discord_token,
     discord_channel_id |-> discord_channel_id,
     approver_values |-> approver_values,
     discord_timeout |-> discord_timeout]

\* send_error_response(..., code=400); return 1
Rejected == [kind |-> "rejected", allow_write |-> FALSE, approver_ids |-> {},
             timeout_seconds |-> 0]

\* Mutant of server_approval: Discord settings without approvers start a
\* human-review manager with nobody to review.
server_approval_NoReviewers(flags) ==
    IF flags.jesus_take_the_wheel
    THEN [kind |-> "NoOp", allow_write |-> TRUE, approver_ids |-> {},
          timeout_seconds |-> 0]
    ELSE IF \/ flags.discord_token
            \/ flags.discord_channel_id
            \/ flags.approver_values # {}
    THEN IF ~flags.discord_token \/ ~flags.discord_channel_id
         THEN Rejected
         ELSE [kind |-> "Discord", allow_write |-> TRUE,
               approver_ids |-> flags.approver_values,
               timeout_seconds |-> flags.discord_timeout]
    ELSE [kind |-> "NoOp", allow_write |-> FALSE, approver_ids |-> {},
          timeout_seconds |-> 0]

\* The approval_manager and allow_write that the `server` command hands to
\* SchwabMCPServer, or its rejection of the flags.
server_approval(flags) ==
    IF flags.jesus_take_the_wheel
    THEN [kind |-> "NoOp", allow_write |-> TRUE, approver_ids |-> {},
          timeout_seconds |-> 0]
    ELSE IF \/ flags.discord_token
            \/ flags.discord_channel_id
            \/ flags.approver_values # {}
    THEN IF ~flags.discord_token \/ ~flags.discord_channel_id
         THEN Rejected
         ELSE IF flags.approver_values = {}
         THEN Rejected
         ELSE [kind |-> "Discord", allow_write |-> TRUE,
               approver_ids |-> flags.approver_values,
               timeout_seconds |-> flags.discord_timeout]
    ELSE [kind |-> "NoOp", allow_write |-> FALSE, approver_ids |-> {},
          timeout_seconds |-> 0]

\* The `server` command with valid credentials and token, up to the start
\* of the server.
server(flags) ==
    /\ ~mounted
    /\ IF server_approval(flags) = Rejected
       THEN /\ response' = Resp("server", "return 1")
            /\ UNCHANGED <<mounted, manager>>
       ELSE /\ mounted' = TRUE
            /\ manager' = server_approval(flags)
            /\ UNCHANGED response
    /\ UNCHANGED <<clients, auth_codes, access_tokens, refresh_tokens,
                   state_mapping, now, minted, ticks, task, granted>>
    /\ UNCHANGED <<served, pending, decided, executed, log, limiter, admin>>

Serve(flagsets) == \E flags \in flagsets : server(flags)

Receive(paths, bearers) == \E path \in paths, bearer \in bearers : app(path, bearer)

(***************************************************************************)
(* The admin service of create_admin_app.                                  *)
(***************************************************************************)
\* _cleanup_expired_state(), at time t. The timestamp is written with
\* isoformat() and read back with fromisoformat(), which gives the instant
\* that was written.
cleanup_expired_state(d, t) ==
    [k \in {x \in DOMAIN d :
               ~(t - d[x].timestamp > Seconds(OAUTH_STATE_TTL_SECONDS))} |-> d[k]]

\* schwab_auth_start(request)
schwab_auth_start ==
    LET state == Str("hex", minted.hex + 1)
        entry == [auth_context |-> Str("context", minted.hex + 1),
                  timestamp |-> now]
    IN /\ oauth_state' = Put(cleanup_expired_state(oauth_state, now), state, entry)
       /\ minted' = [minted EXCEPT !.hex = @ + 1]
       /\ response' = Redirect("schwab_auth_start", "302", <<"state", state>>)
       /\ UNCHANGED <<stores, now, ticks, task, granted, written>>

\* Mutant of PopState: the entry stays in the store.
PopState_Kept(d, state) == d

\* `_oauth_state.pop(state)`
PopState(d, state) == Remove(d, state)

\* The query parameters of a callback, and what the token exchange and the
\* write to the token storage come to.
CallbackCodes == {None, Str("code", 1)}

ExchangeOutcomes == {"token", "no token", "write failed"}

\* schwab_callback(request) with the query parameters code and state; the
\* exchange with Schwab and the write to the token storage end as outcome
\* says.
schwab_callback(code, state, outcome) ==
    /\ IF code = None
       THEN /\ response' = Resp("schwab_callback", "400 no code")
            /\ UNCHANGED <<oauth_state, written>>
       ELSE IF state = None \/ state \notin DOMAIN oauth_state
       THEN /\ response' = Resp("schwab_callback", "400 state missing or expired")
            /\ UNCHANGED <<oauth_state, written>>
       ELSE /\ oauth_state' = PopState(oauth_state, state)
            /\ IF outcome = "token"
               THEN /\ written' = Append(written, [state |-> state, at |-> now])
                    /\ response' = Resp("schwab_callback", "200")
               ELSE /\ response' = Resp("schwab_callback", "500")
                    /\ UNCHANGED written
    /\ UNCHANGED <<stores, now, minted, ticks, task, granted>>

AuthStart(budget) ==
    /\ Used < budget
    /\ schwab_auth_start
    /\ UNCHANGED <<limiter, mounted, served, manager, pending, decided,
                   executed, log>>

Callback ==
    \E code \in CallbackCodes, state \in StateInputs, outcome \in ExchangeOutcomes :
        /\ schwab_callback(code, state, outcome)
        /\ UNCHANGED <<limiter, mounted, served, manager, pending, decided,
                       executed, log>>

(***************************************************************************)
(* The order tools and the approval managers.                              *)
(***************************************************************************)
\* _READ_ONLY_TOOLS
READ_ONLY_TOOLS ==
    {"get_order", "get_orders", "build_equity_order_spec",
     "build_equity_trailing_stop_order_spec", "build_option_order_spec",
     "create_option_symbol"}

\* _WRITE_TOOLS
WRITE_TOOLS ==
    {"cancel_order", "place_equity_order", "place_option_order",
     "place_equity_trailing_stop_order", "place_one_cancels_other_order",
     "place_first_triggers_second_order", "place_bracket_order",
     "place_option_combo_order"}

\* Mutant of register: the write tools are registered without write=True.
register_Unflagged(allow_write) ==
    [tool \in READ_ONLY_TOOLS \cup (IF allow_write THEN WRITE_TOOLS ELSE {}) |->
        [write |-> FALSE]]

\* register(server, allow_write=...): the tools registered, each with the
\* `write` argument of its register_tool call.
register(allow_write) ==
    [tool \in READ_ONLY_TOOLS \cup (IF allow_write THEN WRITE_TOOLS ELSE {}) |->
        [write |-> tool \in WRITE_TOOLS]]

\* ApprovalDecision
ApprovalDecision == {"approved", "denied", "expired"}

\* ApprovalRequest
ApprovalRequest(id, tool_name, request_id, client_id, arguments) ==
    [id |-> id, tool_name |-> tool_name, request_id |-> request_id,
     client_id |-> client_id, arguments |-> arguments]

\* The empty string, and "<unknown>".
EmptyStr == Str("", 0)

Unknown == Str("<unknown>", 0)

\* Mutant of noop_require: the client id is logged as it is.
noop_require_Bare(request) ==
    [decision |-> "approved",
     entry |-> [level |-> "warning", tool |-> request.tool_name,
                approval_id |-> request.id, client_id |-> request.client_id,
                request_id |-> request.request_id,
                arguments |-> request.arguments]]

\* NoOpApprovalManager.require(request): what it returns and the one entry
\* it logs.
noop_require(request) ==
    [decision |-> "approved",
     entry |-> [level |-> "warning", tool |-> request.tool_name,
                approval_id |-> request.id,
                client_id |-> IF request.client_id \in {None, EmptyStr}
                              THEN Unknown ELSE request.client_id,
                request_id |-> request.request_id,
                arguments |-> request.arguments]]

\* A call of NoOpApprovalManager.require(request): the entry is logged and
\* the decision is returned.
NoOpRequire(request) ==
    /\ log' = Append(log, noop_require(request).entry)
    /\ decided' = Put(decided, request.id, <<noop_require(request).decision>>)
    /\ UNCHANGED pending

\* The operation of a tool, handed to the brokerage client.
Operation(tool, approval) == [tool |-> tool, approval |-> approval]

\* DiscordApprovalManager.require(request), up to its wait: the request is
\* posted to the reviewer channel, unless the channel cannot be reached, and
\* waits for a response or for the timeout.
discord_require(request, posted) ==
    /\ pending' = Put(pending, request.id,
                      [request |-> request,
                       deadline |-> monotonic + manager.timeout_seconds,
                       posted |-> posted, cancelled |-> FALSE])
    /\ decided' = Put(decided, request.id, <<>>)

\* The wait of a request ends with a decision: the record leaves the
\* pending set, and the tool call, unless it was cancelled, goes on with
\* the decision.
Resolve(id, decision) ==
    /\ pending' = Remove(pending, id)
    /\ decided' = Put(decided, id, Append(decided[id], decision))
    /\ executed' = IF decision = "approved" /\ ~pending[id].cancelled
                   THEN executed \cup
                            {Operation(pending[id].request.tool_name, id)}
                   ELSE executed

\* Mutant of on_response: the response ends every wait.
on_response_All(id, who, signal) ==
    /\ IF /\ id \in DOMAIN pending
          /\ who \in manager.approver_ids
       THEN /\ pending' = EmptyDict
            /\ decided' = [k \in DOMAIN decided |->
                               IF k \in DOMAIN pending
                               THEN Append(decided[k], signal) ELSE decided[k]]
            /\ UNCHANGED executed
       ELSE UNCHANGED <<pending, decided, executed>>
    /\ UNCHANGED <<mounted, served, manager, log, vars, limiter, admin>>

\* The handler of a reviewer's response: the signal of an identity on the
\* allow-list ends the wait of the request with that id; any other response
\* is ignored, and so is one for an id that nobody waits for.
on_response(id, who, signal) ==
    /\ IF /\ id \in DOMAIN pending
          /\ pending[id].posted
          /\ ~pending[id].cancelled
          /\ who \in manager.approver_ids
       THEN Resolve(id, signal)
       ELSE UNCHANGED <<pending, decided, executed>>
    /\ UNCHANGED <<mounted, served, manager, log, vars, limiter, admin>>

\* Mutant of on_timeout: an abandoned request is dropped without decision.
on_timeout_Drop(id) ==
    /\ id \in DOMAIN pending
    /\ monotonic >= pending[id].deadline
    /\ IF pending[id].cancelled
       THEN /\ pending' = Remove(pending, id)
            /\ UNCHANGED <<decided, executed>>
       ELSE Resolve(id, "expired")
    /\ UNCHANGED <<mounted, served, manager, log, vars, limiter, admin>>

\* The timeout of a wait elapses.
on_timeout(id) ==
    /\ id \in DOMAIN pending
    /\ monotonic >= pending[id].deadline
    /\ Resolve(id, "expired")
    /\ UNCHANGED <<mounted, served, manager, log, vars, limiter, admin>>

\* The tool call that waits for the decision is cancelled.
cancel(id) ==
    /\ id \in DOMAIN pending
    /\ ~pending[id].cancelled
    /\ pending' = [pending EXCEPT ![id].cancelled = TRUE]
    /\ UNCHANGED <<decided, executed, mounted, served, manager, log, vars,
                   limiter, admin>>

\* A call of a tool that register_tool registered: a tool registered with
\* write=True asks the approval manager and goes on to the brokerage client
\* only with the decision "approved".
register_tool(tool, request_id, client_id, arguments, posted) ==
    /\ mounted
    /\ tool \in DOMAIN register(manager.allow_write)
    /\ IF ~register(manager.allow_write)[tool].write
       THEN /\ executed' = executed \cup {Operation(tool, None)}
            /\ UNCHANGED <<pending, decided, log>>
       ELSE LET id == Str("approval", Cardinality(DOMAIN decided) + 1)
                request == ApprovalRequest(id, tool, request_id, client_id,
                                           arguments)
            IN IF manager.kind = "NoOp"
               THEN /\ NoOpRequire(request)
                    /\ executed' =
                           IF noop_require(request).decision = "approved"
                           THEN executed \cup {Operation(tool, id)}
                           ELSE executed
               ELSE /\ discord_require(request, posted)
                    /\ UNCHANGED <<executed, log>>
    /\ UNCHANGED <<mounted, served, manager, vars, limiter, admin>>

ApprovalIds == {Str("approval", n) : n \in 1..(GateCalls + 1)}

\* The tool, request id, client id and arguments of a tool call.
ToolInputs ==
    {<<tool, Str("request", 1), client_id, [symbol |-> "SPY", quantity |-> 1]>> :
        tool \in {"get_order", "place_equity_order"},
        client_id \in {None, EmptyStr, ClientId(1)}}

Invoke(calls, horizon) ==
    \E in \in ToolInputs, posted \in BOOLEAN :
        /\ Cardinality(DOMAIN decided) < calls
        /\ monotonic + manager.timeout_seconds <= horizon
        /\ register_tool(in[1], in[2], in[3], in[4], posted)

Respond == \E id \in ApprovalIds, who \in Identities, signal \in {"approved", "denied"} :
    on_response(id, who, signal)

Timeout == \E id \in ApprovalIds : on_timeout(id)

Cancel == \E id \in ApprovalIds : cancel(id)

\* Mutant of Wait: time passes whether or not a timeout is due.
Wait_Late(horizon) ==
    /\ monotonic + 1 <= horizon
    /\ Elapse(1)

\* Time passes, up to the next timeout that is due.
Wait(horizon) ==
    /\ monotonic + 1 <= horizon
    /\ \A id \in DOMAIN pending : monotonic + 1 <= pending[id].deadline
    /\ Elapse(1)

(***************************************************************************)
(* Spec: one registered client, two concurrent request tasks, every        *)
(* operation of the provider.                                              *)
(***************************************************************************)
Next ==
    \/ Register({ClientId(1), NoId}, {"v1"})
    \/ Authorize(Budget, {ClientId(1)}, {ParamsA}, ClientStates \cup {None})
    \/ ConsentPage
    \/ Consent(Budget)
    \/ LoadCode(Tasks, {ClientId(1)})
    \/ ExchangeCode(Budget, Tasks)
    \/ LoadAccess
    \/ LoadRefresh(Tasks, {ClientId(1)}, ScopeRequests)
    \/ ExchangeRefresh(Budget, Tasks)
    \/ Revoke
    \/ Clock(Budget, TickSteps)

Spec == Init /\ [][Next]_vars

(***************************************************************************)
(* SpecSeq: as Spec, with one request task.                                *)
(***************************************************************************)
NextSeq ==
    \/ Register({ClientId(1), NoId}, {"v1"})
    \/ Authorize(Budget, {ClientId(1)}, {ParamsA}, ClientStates \cup {None})
    \/ ConsentPage
    \/ Consent(Budget)
    \/ LoadCode({"t1"}, {ClientId(1)})
    \/ ExchangeCode(Budget, {"t1"})
    \/ LoadAccess
    \/ LoadRefresh({"t1"}, {ClientId(1)}, ScopeRequests)
    \/ ExchangeRefresh(Budget, {"t1"})
    \/ Revoke
    \/ Clock(Budget, TickSteps)

SpecSeq == Init /\ [][NextSeq]_vars

(***************************************************************************)
(* SpecClients: every operation of the provider, with registrations up to  *)
(* and past MAX_CLIENTS; the flows are those of the first client.          *)
(***************************************************************************)
NextClients ==
    \/ Register({NewClientId, ClientId(1), NoId}, {"v1"})
    \/ Authorize(Budget, {ClientId(1)}, {ParamsA}, ClientStates)
    \/ ConsentPage
    \/ Consent(Budget)
    \/ LoadCode({"t1"}, {ClientId(1)})
    \/ ExchangeCode(Budget, {"t1"})
    \/ LoadAccess
    \/ LoadRefresh({"t1"}, {ClientId(1)}, {{}})
    \/ ExchangeRefresh(Budget, {"t1"})
    \/ Revoke
    \/ Clock(Budget, {Seconds(AUTH_CODE_TTL)})

SpecClients == Init /\ [][NextClients]_vars

(***************************************************************************)
(* SpecCapacity: register_client and authorize with server-drawn states,   *)
(* up to and past MAX_CLIENTS and MAX_STATE_MAPPINGS.                      *)
(***************************************************************************)
NextCapacity ==
    \/ Register({NewClientId, NoId}, {"v1"})
    \/ Register({ClientId(1)}, {"v1", "v2"})
    \/ Authorize(MAX_STATE_MAPPINGS + Slack, {ClientId(1)}, {ParamsA}, {None})

SpecCapacity == Init /\ [][NextCapacity]_vars

(***************************************************************************)
(* SpecGrowth: authorize and handle_consent, approvals up to and past      *)
(* MAX_AUTH_CODES while the clock stands still.                            *)
(***************************************************************************)
NextGrowth ==
    \/ Register({ClientId(1)}, {"v1"})
    \/ Authorize(0, {ClientId(1)}, {ParamsA}, ClientStates)
    \/ Consent(MAX_AUTH_CODES + Slack)

SpecGrowth == Init /\ [][NextGrowth]_vars


(***************************************************************************)
(* SpecConsent: the consent step: authorization requests that differ in    *)
(* every field, with caller-chosen and server-drawn states, the consent    *)
(* page and the consent form, while the clock advances.                    *)
(***************************************************************************)
NextConsent ==
    \/ Register({ClientId(1)}, {"v1"})
    \/ Authorize(Budget, {ClientId(1)}, {ParamsA, ParamsB},
                 ClientStates \cup {None})
    \/ ConsentPage
    \/ Consent(Budget)
    \/ Clock(Budget, {Seconds(AUTH_CODE_TTL)})

SpecConsent == Init /\ [][NextConsent]_vars

(***************************************************************************)
(* SpecResource: the grant of a request that names a resource and of one   *)
(* that names none: approval, code exchange and refreshes, while the clock *)
(* stands still.                                                           *)
(***************************************************************************)
NextResource ==
    \/ Register({ClientId(1)}, {"v1"})
    \/ Authorize(Budget, {ClientId(1)}, {ParamsA, ParamsB}, ClientStates)
    \/ Consent(Budget)
    \/ LoadCode({"t1"}, {ClientId(1)})
    \/ ExchangeCode(Budget, {"t1"})
    \/ LoadRefresh({"t1"}, {ClientId(1)}, {{}})
    \/ ExchangeRefresh(Budget, {"t1"})

SpecResource == Init /\ [][NextResource]_vars

(***************************************************************************)
(* SpecEvict: authorize with server-drawn states and a caller's state that *)
(* is reused, up to and past MAX_STATE_MAPPINGS.                           *)
(***************************************************************************)
NextEvict ==
    \/ Register({ClientId(1)}, {"v1"})
    \/ Authorize(MAX_STATE_MAPPINGS + Slack, {ClientId(1)}, {ParamsA},
                 ClientStates \cup {None})

SpecEvict == Init /\ [][NextEvict]_vars

(***************************************************************************)
(* SpecLimiter: HTTP and other requests, from a client with an address and *)
(* from one without, to paths that match both rules, one rule and none,    *)
(* while the monotonic clock advances.                                     *)
(***************************************************************************)
NextLimiter ==
    \/ Call(LimiterBudget, ScopeTypes, RequestClients, Paths)
    \/ Monotonic(LimiterBudget, {1})

SpecLimiter == Init /\ [][NextLimiter]_<<vars, limiter>>

(***************************************************************************)
(* SpecTracked: one request each from more clients than                    *)
(* _MAX_TRACKED_CLIENTS, and pauses that make the clients seen so far      *)
(* idle. New clients arrive until the first pause is over.                 *)
(***************************************************************************)
NextTracked ==
    \/ Arrive(MAX_TRACKED_CLIENTS + Slack, IdleSeconds)
    \/ Pause(Slack, 2 * IdleSeconds, IdleSeconds)

SpecTracked == Init /\ [][NextTracked]_<<vars, limiter>>

(***************************************************************************)
(* SpecSweep: the first client's request, then, a whole number of largest  *)
(* windows later, one request each from more clients than                  *)
(* _MAX_TRACKED_CLIENTS: the sweep meets a window that is active, idle or  *)
(* stale.                                                                  *)
(***************************************************************************)
NextSweep ==
    \/ Arrive(MAX_TRACKED_CLIENTS + Slack, 3 * MaxWindow)
    \/ Pause(1, 3 * MaxWindow, MaxWindow)

SpecSweep == Init /\ [][NextSweep]_<<vars, limiter>>

(***************************************************************************)
(* SpecApp: the application of create_app: its lifespan, requests to its   *)
(* routes with and without a bearer token, and the provider's operations   *)
(* that issue, expire and revoke access tokens.                            *)
(***************************************************************************)
\* config: the approval settings of RemoteServerConfig
Config(jesus_take_the_wheel, discord, discord_approvers, discord_timeout) ==
    [jesus_take_the_wheel |-> jesus_take_the_wheel, discord |-> discord,
     discord_approvers |-> discord_approvers,
     discord_timeout |-> discord_timeout]

RequestPaths ==
    {<<"mcp">>, <<"token">>, <<"consent", "approve">>, <<"health">>, <<"x">>}

Bearers == {None, Str("smcp_at_", 1), Str("smcp_at_", 0)}

NextApp ==
    \/ Startup({Config(FALSE, FALSE, {}, 0)})
    \/ Receive(RequestPaths, Bearers)
    \/ Register({ClientId(1)}, {"v1"})
    \/ Authorize(Budget, {ClientId(1)}, {ParamsA}, {None})
    \/ Consent(Budget)
    \/ LoadCode({"t1"}, {ClientId(1)})
    \/ ExchangeCode(Budget, {"t1"})
    \/ Revoke
    \/ Clock(Budget, {Seconds(ACCESS_TOKEN_TTL)})

SpecApp == Init /\ [][NextApp]_<<vars, limiter, serving>>

(***************************************************************************)
(* SpecWrite: the remote server and the CLI server command under every     *)
(* combination of the bypass flag and the Discord settings, and calls of   *)
(* read and write tools on the server that was started.                    *)
(***************************************************************************)
RemoteConfigs ==
    {Config(j, d, a, GateTimeout) :
        j \in BOOLEAN, d \in BOOLEAN, a \in {{}, Reviewers}}

CliFlags ==
    {Flags(j, t, c, a, GateTimeout) :
        j \in BOOLEAN, t \in BOOLEAN, c \in BOOLEAN, a \in {{}, Reviewers}}

NextWrite ==
    \/ Startup(RemoteConfigs)
    \/ Serve(CliFlags)
    \/ Invoke(GateCalls, GateTimeout + 1)
    \/ Respond

SpecWrite == Init /\ [][NextWrite]_<<vars, limiter, serving>>

(***************************************************************************)
(* SpecAdmin: the admin service: authorizations started, callbacks with    *)
(* and without code, with issued, unknown and missing states, exchanges    *)
(* that succeed and fail, while the clock advances up to and past the      *)
(* lifetime of a state.                                                    *)
(***************************************************************************)
NextAdmin ==
    \/ AuthStart(Budget)
    \/ Callback
    \/ Clock(Budget, {1, Seconds(OAUTH_STATE_TTL_SECONDS)})

SpecAdmin == Init /\ [][NextAdmin]_<<vars, limiter, serving>>

(***************************************************************************)
(* SpecGate: calls of read and write tools under each approval             *)
(* configuration; under human review, responses of reviewers and others,   *)
(* cancelled calls, an unreachable channel, and timeouts. A timeout that   *)
(* is due fires, and time goes on while none is due.                       *)
(***************************************************************************)
NextGate ==
    \/ Startup({Config(TRUE, FALSE, {}, 0),
                Config(FALSE, TRUE, Reviewers, GateTimeout),
                Config(FALSE, TRUE, {}, GateTimeout),
                Config(FALSE, FALSE, {}, 0)})
    \/ Invoke(GateCalls, GateTimeout + 1)
    \/ Respond
    \/ Timeout
    \/ Cancel
    \/ Wait(GateTimeout + 1)

SpecGate ==
    /\ Init
    /\ [][NextGate]_<<vars, limiter, serving>>
    /\ WF_<<vars, limiter, serving>>(Timeout)
    /\ WF_<<vars, limiter, serving>>(Wait(GateTimeout + 1))

(***************************************************************************)
(* Claims.                                                                 *)
(***************************************************************************)
TokensUnchanged ==
    access_tokens' = access_tokens /\ refresh_tokens' = refresh_tokens

\* C1: over any interleaving of code-exchange attempts of the request tasks,
\* an attempt returns a token pair only if no earlier attempt returned one
\* for the same code, and every other attempt fails with the invalid-code
\* error and leaves the token stores as they were.
C1_CodeExchangedAtMostOnce ==
    [][\A t \in Tasks :
          exchange_authorization_code(t) =>
              \/ /\ response'.res = "OAuthToken"
                 /\ Count(granted, task[t].loaded.code) = 0
              \/ /\ response'.res = "ValueError: Invalid authorization code"
                 /\ TokensUnchanged]_vars

\* C2: exchange_authorization_code for a code that is still in the code
\* store although its expiry has passed fails as an invalid code and leaves
\* the access-token and refresh-token stores unchanged.
C2_ExpiredCodeRejected ==
    [][\A t \in Tasks :
          (/\ exchange_authorization_code(t)
           /\ task[t].loaded.code \in DOMAIN auth_codes
           /\ now >= auth_codes[task[t].loaded.code].expires_at)
          => (/\ response'.res = "ValueError: Invalid authorization code"
              /\ TokensUnchanged)]_vars

\* C3: a lookup of an access token or of a refresh token at a time at or
\* after its stored expiry returns None, and the entry is gone afterwards.
C3_ExpiredLookupReturnsNone ==
    [][/\ \A token \in DOMAIN access_tokens :
             (/\ load_access_token(token)
              /\ now >= access_tokens[token].expires_at)
             => (/\ response'.res = "None"
                 /\ token \notin DOMAIN access_tokens')
       /\ \A token \in DOMAIN refresh_tokens :
             (/\ \E t \in Tasks, c \in DOMAIN clients, sc \in ScopeRequests :
                     load_refresh_token(t, c, token, sc)
              /\ now >= refresh_tokens[token].expires_at)
             => (/\ response'.res = "None"
                 /\ token \notin DOMAIN refresh_tokens')]_vars

\* C4: a refresh token is single-use: an exchange_refresh_token call issues
\* a new pair only if the presented token is still in the refresh store and
\* no earlier attempt was granted a pair for it; any other call fails and
\* issues nothing.
C4_RefreshTokenSingleUse ==
    [][\A t \in Tasks :
          exchange_refresh_token(t) =>
              \/ /\ response'.res = "OAuthToken"
                 /\ task[t].loaded.token \in DOMAIN refresh_tokens
                 /\ Count(granted, task[t].loaded.token) = 0
              \/ /\ response'.res # "OAuthToken"
                 /\ TokensUnchanged]_vars

\* The pair a token exchange has just issued.
NewAccess == access_tokens'[Str("smcp_at_", minted'.pair)]

NewRefresh == refresh_tokens'[Str("smcp_rt_", minted'.pair)]

\* C5: the scopes of the pair a successful refresh issues are a subset of
\* the scopes of the presented refresh token: the requested scopes when a
\* non-empty subset is requested, the original scopes when none are.
C5_RefreshNeverWidensScope ==
    [][\A t \in Tasks :
          (exchange_refresh_token(t) /\ response'.res = "OAuthToken") =>
              LET old == task[t].loaded.scopes
                  requested == task[t].scopes
              IN /\ NewAccess.scopes \subseteq old
                 /\ NewRefresh.scopes \subseteq old
                 /\ NewAccess.scopes = NewRefresh.scopes
                 /\ (requested # {} /\ requested \subseteq old)
                        => NewAccess.scopes = requested
                 /\ requested = {} => NewAccess.scopes = old]_vars

\* The access token issued in the same exchange as the refresh token rt.
PairedAccess(rt) == Str("smcp_at_", rt[2])

\* C6 as stated: after a successful refresh presenting R, the access token
\* that was issued together with R is no longer in the access-token store.
C6_RotationDeletesAccessToken ==
    [][\A t \in Tasks :
          (exchange_refresh_token(t) /\ response'.res = "OAuthToken") =>
              PairedAccess(task[t].loaded.token) \notin DOMAIN access_tokens']_vars

\* C6 as amended: a successful refresh presenting R removes R from the
\* refresh store and deletes no access token that has not expired: every
\* access token with expires_at > now, the one issued together with R
\* included, is still in the access-token store afterwards, unchanged.
C6_RotationKeepsAccessToken ==
    [][\A t \in Tasks :
          (exchange_refresh_token(t) /\ response'.res = "OAuthToken") =>
              /\ task[t].loaded.token \notin DOMAIN refresh_tokens'
              /\ \A a \in DOMAIN access_tokens :
                     access_tokens[a].expires_at > now =>
                         /\ a \in DOMAIN access_tokens'
                         /\ access_tokens'[a] = access_tokens[a]]_vars

\* A refresh was granted for a refresh token whose paired access token is
\* still in the access-token store.
C6_Witness ==
    /\ response = Resp("exchange_refresh_token", "OAuthToken")
    /\ \E rt \in DOMAIN granted :
           /\ rt[1] = "smcp_rt_"
           /\ rt \notin DOMAIN refresh_tokens
           /\ PairedAccess(rt) \in DOMAIN access_tokens

\* C7: the numbers of resident authorization codes, access tokens and
\* refresh tokens never exceed MAX_AUTH_CODES, MAX_ACCESS_TOKENS and
\* MAX_REFRESH_TOKENS.
C7_TokenStoresCapped ==
    /\ Cardinality(DOMAIN auth_codes) <= MAX_AUTH_CODES
    /\ Cardinality(DOMAIN access_tokens) <= MAX_ACCESS_TOKENS
    /\ Cardinality(DOMAIN refresh_tokens) <= MAX_REFRESH_TOKENS

\* C8: the number of registered clients is at most MAX_CLIENTS and the
\* number of pending consent states is at most MAX_STATE_MAPPINGS.
C8_ClientsAndStatesCapped ==
    /\ Cardinality(DOMAIN clients) <= MAX_CLIENTS
    /\ Len(state_mapping) <= MAX_STATE_MAPPINGS

\* Both stores are full and authorize has stored one more state.
C8_Witness ==
    /\ Cardinality(DOMAIN clients) = MAX_CLIENTS
    /\ Len(state_mapping) = MAX_STATE_MAPPINGS
    /\ minted.hex > MAX_STATE_MAPPINGS
    /\ response = Resp("authorize", "consent_url")

\* The ids and metadata register_client is called with.
RegisterIds == {ClientId(k) : k \in 1..(MAX_CLIENTS + 1)}

RegisterMetas == {"v1", "v2"}

\* C9: register_client of a new id succeeds while fewer than MAX_CLIENTS
\* clients are registered and is rejected once MAX_CLIENTS are; of a
\* registered id it always succeeds, as an update that keeps the set of
\* registered ids.
C9_RegistrationCap ==
    [][\A id \in RegisterIds, meta \in RegisterMetas :
          register_client(id, meta) =>
              IF id \in DOMAIN clients
              THEN /\ response'.res = "ok"
                   /\ DOMAIN clients' = DOMAIN clients
                   /\ clients'[id] = meta
              ELSE IF Cardinality(DOMAIN clients) < MAX_CLIENTS
              THEN /\ response'.res = "ok"
                   /\ DOMAIN clients' = DOMAIN clients \cup {id}
                   /\ clients'[id] = meta
              ELSE /\ response'.res = "ValueError: maximum"
                   /\ clients' = clients]_vars

\* At the cap a registered id has been updated.
C9_Witness ==
    /\ Cardinality(DOMAIN clients) = MAX_CLIENTS
    /\ clients[ClientId(1)] = "v2"
    /\ response = Resp("register_client", "ok")

\* C10: a rejected register_client call leaves the client store unchanged,
\* and no step removes a registered client: an id get_client returns a
\* client for is one it returns a client for after the step.
C10_ClientsNeverDropped ==
    [][/\ \A id \in RegisterIds \cup {NoId}, meta \in RegisterMetas :
             (register_client(id, meta) /\ response'.res # "ok")
                 => clients' = clients
       /\ \A id \in RegisterIds :
             get_client(id) # None => get_client(id)' # None]_vars

\* The store is full and a registration has been rejected for that.
C10_Witness ==
    /\ Cardinality(DOMAIN clients) = MAX_CLIENTS
    /\ response = Resp("register_client", "ValueError: maximum")

\* The codes a step has added to the code store.
MintedCodes == DOMAIN auth_codes' \ DOMAIN auth_codes

\* C11: a submission for a pending consent state consumes the state and
\* mints at most one code; a submission for a state that is not pending (so
\* every submission after the first, until authorize stores the state anew)
\* gets the 400 response and changes neither the codes nor the states; no
\* operation but authorize makes a state pending and no operation but
\* handle_consent adds a code.
C11_ConsentStateMintsOnce ==
    [][/\ \A s \in StateInputs, a \in FormActions :
             handle_consent(s, a) =>
                 IF s \in StateKeys
                 THEN /\ s \notin StateKeys'
                      /\ Cardinality(MintedCodes) <= 1
                      /\ response'.res \in {"302 code", "302 access_denied"}
                 ELSE /\ response'.res = "400"
                      /\ auth_codes' = auth_codes
                      /\ state_mapping' = state_mapping
       /\ StateKeys' \ StateKeys # {} => response'.op = "authorize"
       /\ MintedCodes # {} => response'.op = "handle_consent"]_vars

\* An approval has consumed a consent state and minted one code for it.
C11_Witness ==
    /\ response.op = "handle_consent"
    /\ response.res = "302 code"
    /\ \E q \in response.location.query :
           q[1] = "state" /\ q[2] \notin StateKeys
    /\ Cardinality(DOMAIN auth_codes) = 1

\* C12: a denial of a pending consent state redirects to the redirect URI
\* stored for the state with error=access_denied and the state, creates no
\* code and deletes the state; a submission that follows it for the same
\* state, approve or deny, gets the 400 response.
C12_DenialConsumesState ==
    [][\A s \in StateInputs, a \in FormActions :
          /\ (handle_consent(s, a) /\ s \in StateKeys /\ a # "approve") =>
                 /\ response' = Redirect("handle_consent", "302 access_denied",
                        construct_redirect_uri(StateData(s).redirect_uri,
                            {<<"error", "access_denied">>, <<"state", s>>}))
                 /\ auth_codes' = auth_codes
                 /\ s \notin StateKeys'
                 /\ Len(state_mapping') = Len(state_mapping) - 1
          /\ (/\ handle_consent(s, a)
              /\ response.res = "302 access_denied"
              /\ <<"state", s>> \in response.location.query) =>
                 /\ response'.res = "400"
                 /\ UNCHANGED stores]_vars

\* A pending consent state has been denied and is gone.
C12_Witness ==
    /\ response.op = "handle_consent"
    /\ response.res = "302 access_denied"
    /\ response.location.base = UrlStr(ParamsB.redirect_uri)
    /\ \E q \in response.location.query :
           q[1] = "state" /\ q[2] \notin StateKeys
    /\ auth_codes = EmptyDict

\* C13: an approval of a pending consent state mints one code that carries
\* the client id, the redirect URI, the code challenge and the resource
\* stored for the state; the redirect goes to the stored redirect URI with
\* that code and the state; the state is gone afterwards.
C13_ApprovalBindsCode ==
    [][\A s \in StateInputs :
          (handle_consent(s, "approve") /\ s \in StateKeys) =>
              LET data == StateData(s) IN
              /\ Cardinality(MintedCodes) = 1
              /\ \A code \in MintedCodes :
                     /\ auth_codes'[code].code = code
                     /\ auth_codes'[code].client_id = data.client_id
                     /\ UrlStr(auth_codes'[code].redirect_uri) = data.redirect_uri
                     /\ auth_codes'[code].code_challenge = data.code_challenge
                     /\ auth_codes'[code].resource = data.resource
                     /\ response' = Redirect("handle_consent", "302 code",
                            construct_redirect_uri(data.redirect_uri,
                                {<<"code", code>>, <<"state", s>>}))
              /\ s \notin StateKeys'
              /\ Len(state_mapping') = Len(state_mapping) - 1]_vars

\* An approval has minted a code for a request that named a resource.
C13_Witness ==
    /\ response.op = "handle_consent"
    /\ response.res = "302 code"
    /\ \E code \in DOMAIN auth_codes :
           /\ <<"code", code>> \in response.location.query
           /\ auth_codes[code].resource = ParamsB.resource
           /\ auth_codes[code].redirect_uri = ParamsB.redirect_uri
           /\ auth_codes[code].client_id = ClientId(1)

\* C14: get_consent_page answers 200 exactly when the state is pending and
\* 400 otherwise, and leaves every store as it was.
C14_RenderIsReadOnly ==
    [][\A s \in StateInputs :
          get_consent_page(s) =>
              /\ response'.res = (IF s \in StateKeys THEN "200" ELSE "400")
              /\ UNCHANGED stores]_vars

\* The page of a pending state has been rendered and the state is still
\* pending.
C14_Witness ==
    /\ response = Resp("get_consent_page", "200")
    /\ state_mapping # <<>>

\* The entries of the ordered dict.
Entries(m) == {m[i] : i \in 1..Len(m)}

\* The entries whose state is no longer pending after the step.
Evicted == {e \in Entries(state_mapping) : e.state \notin StateKeys'}

\* The state value an authorize call stores its entry under.
StoredState(params) ==
    IF params.state = None THEN Str("hex", minted'.hex) ELSE params.state

AuthorizeInputs ==
    {WithState(p, s) : p \in {ParamsA, ParamsB}, s \in ClientStates \cup {None}}

AllTokens == Built("smcp_at_", "pair") \cup Built("smcp_rt_", "pair")

\* The dict d without the key k, whether or not d has it.
Without(d, k) == [x \in DOMAIN d \ {k} |-> d[x]]

\* C16: revoke_token removes the token from the access store and from the
\* refresh store if it is there, changes nothing if it is absent, does not
\* raise, touches no other token and no other store, and is idempotent: a
\* second revoke_token of the same token would leave the state it finds.
C16_RevokeIdempotent ==
    [][\A token \in AllTokens :
          revoke_token(token) =>
              /\ response'.res = "ok"
              /\ access_tokens' = Without(access_tokens, token)
              /\ refresh_tokens' = Without(refresh_tokens, token)
              /\ (token \notin DOMAIN access_tokens \cup DOMAIN refresh_tokens)
                     => UNCHANGED stores
              /\ UNCHANGED <<clients, auth_codes, state_mapping>>
              /\ Pop(access_tokens', token) = access_tokens'
              /\ Pop(refresh_tokens', token) = refresh_tokens']_vars

\* A refresh token has been revoked while other tokens stay in both stores.
C16_Witness ==
    /\ response = Resp("revoke_token", "ok")
    /\ \E token \in Built("smcp_rt_", "pair") :
           /\ token \notin DOMAIN refresh_tokens
           /\ Count(granted, token) = 0
           /\ PairedAccess(token) \in DOMAIN access_tokens
    /\ refresh_tokens # EmptyDict

\* C17: a successful exchange_authorization_code adds one access token and
\* one refresh token, deletes the exchanged code, and leaves no entry in the
\* code, access-token and refresh-token stores whose expiry is at or before
\* the time of the call.
C17_ExchangeIssuesPairAndSweeps ==
    [][\A t \in Tasks :
          (exchange_authorization_code(t) /\ response'.res = "OAuthToken") =>
              /\ Cardinality(DOMAIN access_tokens' \ DOMAIN access_tokens) = 1
              /\ Cardinality(DOMAIN refresh_tokens' \ DOMAIN refresh_tokens) = 1
              /\ task[t].loaded.code \in DOMAIN auth_codes
              /\ task[t].loaded.code \notin DOMAIN auth_codes'
              /\ \A k \in DOMAIN auth_codes' : auth_codes'[k].expires_at > now
              /\ \A k \in DOMAIN access_tokens' :
                     access_tokens'[k].expires_at > now
              /\ \A k \in DOMAIN refresh_tokens' :
                     refresh_tokens'[k].expires_at > now]_vars

\* A code has been exchanged after another code had expired, and the code
\* store is empty.
C17_Witness ==
    /\ response = Resp("exchange_authorization_code", "OAuthToken")
    /\ minted.code = 2
    /\ ticks > 0
    /\ Cardinality(DOMAIN granted) = 1
    /\ auth_codes = EmptyDict

\* The checks recorded so far for a window key.
Past(key) == IF key \in DOMAIN history THEN history[key] ELSE <<>>

\* The requests of a window key that were allowed later than t.
AllowedSince(key, t) == SelectSeq(Past(key), LAMBDA h : ~h.limited /\ h.at > t)

LimiterInputs == RequestClients \X Paths

\* C18: for one client address and one rule, a request to a matching path
\* is allowed exactly when fewer than max_requests requests of the address
\* were allowed under the rule within the last window_seconds: from an empty
\* window the first max_requests requests inside the window are allowed, the
\* next one inside the window is rejected with 429, and a request made when
\* the window has elapsed since the earlier requests is allowed again.
C18_SlidingWindow ==
    [][\A in \in LimiterInputs :
          call("http", in[1], in[2]) =>
              \A i \in Checked(in[2]) :
                  LET rule == rules[i]
                      key == <<ClientIp(in[1]), rule.path_prefix>>
                      inside == AllowedSince(key, monotonic - rule.window_seconds)
                  IN /\ Len(inside) < rule.max_requests
                        => reply'.status = "forwarded"
                     /\ Len(inside) >= rule.max_requests
                        => reply'.status = "429"
                     /\ (\A n \in 1..Len(Past(key)) :
                            Past(key)[n].at + rule.window_seconds <= monotonic)
                        => reply'.status = "forwarded"]_<<vars, limiter>>

\* Under the first rule an address was allowed max_requests requests, then
\* rejected, and allowed again later.
C18_Witness ==
    \E key \in DOMAIN history :
        /\ key[2] = rules[1].path_prefix
        /\ Len(history[key]) = MaxRequests + 2
        /\ \A n \in 1..MaxRequests : ~history[key][n].limited
        /\ history[key][MaxRequests + 1].limited
        /\ ~history[key][MaxRequests + 2].limited
        /\ reply.status = "forwarded"

\* The time of each request in a sequence of checks.
Times(checks) == [n \in 1..Len(checks) |-> checks[n].at]

\* C19: a window holds the timestamps of the allowed requests of its key
\* that were inside the window at the key's latest check, each once and in
\* order, and nothing else: a rejected request adds no timestamp and an
\* allowed request adds exactly one.
C19_RejectedNotRecorded ==
    \A key \in DOMAIN windows :
        \E i \in 1..Len(rules) :
            /\ rules[i].path_prefix = key[2]
            /\ Past(key) # <<>>
            /\ LET latest == Past(key)[Len(Past(key))].at
               IN windows[key] =
                      Times(AllowedSince(key, latest - rules[i].window_seconds))

\* A request has been rejected as the latest of its key, whose window holds
\* max_requests timestamps, all from before.
C19_Witness ==
    /\ reply.status = "429"
    /\ \E key \in DOMAIN windows :
           /\ key[2] = rules[1].path_prefix
           /\ Past(key)[Len(Past(key))].limited
           /\ Len(windows[key]) = MaxRequests
           /\ \A n \in 1..Len(windows[key]) : windows[key][n] < monotonic

\* The rules whose prefix is a prefix of the path.
Matching(path) ==
    {i \in 1..Len(rules) : StartsWith(path, rules[i].path_prefix)}

\* C20: an HTTP request whose path matches a rule is checked against one
\* rule, the first of the list that matches, and touches the window of that
\* rule and the client only; a request whose path matches no rule, and a
\* request of a scope that is not HTTP, is forwarded, is not counted and
\* creates no window.
C20_FirstMatchWins ==
    [][\A ty \in ScopeTypes, in \in LimiterInputs :
          call(ty, in[1], in[2]) =>
              IF ty = "http" /\ Matching(in[2]) # {}
              THEN LET first == CHOOSE i \in Matching(in[2]) :
                                    \A j \in Matching(in[2]) : i <= j
                       key == <<ClientIp(in[1]), rules[first].path_prefix>>
                   IN /\ reply'.checked = {first}
                      /\ DOMAIN windows' = DOMAIN windows \cup {key}
                      /\ \A k \in DOMAIN windows \ {key} :
                             windows'[k] = windows[k]
                      /\ Len(history'[key]) = Len(Past(key)) + 1
                      /\ \A k \in DOMAIN history \ {key} :
                             history'[k] = history[k]
              ELSE /\ reply' = [status |-> "forwarded", checked |-> {}]
                   /\ UNCHANGED <<windows, history>>]_<<vars, limiter>>

\* A client without address has been checked under the first rule and has
\* no window under the second, whose prefix matches the same paths.
C20_Witness ==
    /\ reply = [status |-> "forwarded", checked |-> {1}]
    /\ <<"unknown", rules[1].path_prefix>> \in DOMAIN windows
    /\ <<"unknown", rules[2].path_prefix>> \notin DOMAIN windows

\* C21: after every request the window map holds at most
\* _MAX_TRACKED_CLIENTS + 1 entries, however many distinct client addresses
\* send requests.
C21_TrackedWindowsBounded ==
    Cardinality(DOMAIN windows) <= MAX_TRACKED_CLIENTS + 1

\* The window of the key is empty, or its latest request is more than twice
\* the largest window before time t.
IdleWindow(w, key, t) ==
    w[key] = <<>> \/ w[key][Len(w[key])] + 2 * MaxWindow < t

\* A request has been let through since the window of the key became idle.
ServedSince(key) ==
    \E k \in DOMAIN history : \E n \in 1..Len(history[k]) :
        /\ ~history[k][n].limited
        /\ windows[key] # <<>>
        /\ history[k][n].at > windows[key][Len(windows[key])] + 2 * MaxWindow

C23_RateLimitedBeforeHandled ==
    [][\A path \in RequestPaths, bearer \in Bearers :
          /\ app(path, bearer)
          /\ served'.handler # None
          /\ \E i \in 1..Len(DEFAULT_RULES) :
                 StartsWith(path, DEFAULT_RULES[i].path_prefix)
          => history' # history /\ reply'.status = "forwarded"]_<<vars, limiter, serving>>

\* C24: a request reaches the route of the tool invocations ("/mcp") only
\* with a bearer token for which load_access_token returns a token: one
\* that is stored and has not expired.
C24_McpRequiresBearer ==
    [][\A path \in RequestPaths, bearer \in Bearers :
          app(path, bearer) /\ served'.handler = <<"mcp">> =>
              /\ bearer \in DOMAIN access_tokens
              /\ ~LookupExpired(access_tokens[bearer], now)]_<<vars, limiter, serving>>

\* C25: an operation of a write tool is handed to the brokerage client only
\* for an invocation whose approval request was decided "approved"; an
\* invocation that was denied or expired is never executed.
C25_WriteOnlyAfterApproval ==
    \A op \in executed :
        op.tool \in WRITE_TOOLS =>
            /\ op.approval \in DOMAIN decided
            /\ decided[op.approval] = <<"approved">>

\* Under human review one write invocation was approved and executed, and
\* another was denied or expired and not executed.
C25_Witness ==
    /\ manager.kind = "Discord"
    /\ \E a, b \in DOMAIN decided :
           /\ decided[a] = <<"approved">>
           /\ Operation("place_equity_order", a) \in executed
           /\ decided[b] \in {<<"denied">>, <<"expired">>}
           /\ Operation("place_equity_order", b) \notin executed

\* C26: a call of the auto-approve manager's require returns "approved" and
\* adds exactly one entry to the log, of level warning, with the tool name,
\* the approval id, the client id, or "<unknown>" when there is none, the
\* request id and the arguments of the request.
C26_AutoApproveLogsOnce ==
    [][\A in \in ToolInputs :
          LET id == Str("approval", Cardinality(DOMAIN decided) + 1)
          IN /\ manager.kind = "NoOp"
             /\ NoOpRequire(ApprovalRequest(id, in[1], in[2], in[3], in[4]))
             => /\ decided'[id] = <<"approved">>
                /\ Len(log') = Len(log) + 1
                /\ SubSeq(log', 1, Len(log)) = log
                /\ log'[Len(log')] =
                       [level |-> "warning", tool |-> in[1],
                        approval_id |-> id,
                        client_id |-> IF in[3] \in {None, EmptyStr}
                                      THEN Unknown ELSE in[3],
                        request_id |-> in[2], arguments |-> in[4]]]_<<vars, limiter, serving>>

\* Two write invocations were auto-approved, one of a known client and one
\* without client id: the log holds one entry for each.
C26_Witness ==
    /\ manager.kind = "NoOp"
    /\ Len(log) = 2
    /\ log[1].client_id = ClientId(1)
    /\ log[2].client_id = Unknown
    /\ DOMAIN decided = {log[1].approval_id, log[2].approval_id}
    /\ \A id \in DOMAIN decided : decided[id] = <<"approved">>

\* C27: every approval request under human review gets exactly one
\* decision: it leaves the pending set with one decision out of approved,
\* denied and expired, and while it waits time does not pass beyond its
\* timeout, whether or not it was posted to the channel; a response of a
\* reviewer that finds the request waiting decides it with the reviewer's
\* signal, the timeout decides it "expired", and whichever comes first is
\* the only decision.
C27_ExactlyOneDecision ==
    /\ \A id \in ApprovalIds :
           (id \in DOMAIN pending) ~>
               (IF id \in DOMAIN pending \/ id \notin DOMAIN decided
                THEN FALSE ELSE Len(decided[id]) = 1)
    /\ [](\A id \in DOMAIN decided :
             /\ Len(decided[id]) <= 1
             /\ \A n \in 1..Len(decided[id]) :
                    decided[id][n] \in ApprovalDecision
             /\ id \in DOMAIN pending <=> decided[id] = <<>>
             /\ id \in DOMAIN pending =>
                    monotonic <= pending[id].deadline)
    /\ [][\A id \in DOMAIN pending :
              /\ \A who \in Reviewers, signal \in {"approved", "denied"} :
                     /\ on_response(id, who, signal)
                     /\ pending[id].posted /\ ~pending[id].cancelled
                     => decided'[id] = <<signal>>
              /\ on_timeout(id) => decided'[id] = <<"expired">>]_<<vars, limiter, serving>>

\* Of two requests under human review one has expired and the other was
\* decided by a reviewer; none is pending.
C27_Witness ==
    /\ manager.kind = "Discord"
    /\ pending = EmptyDict
    /\ \E a, b \in DOMAIN decided :
           /\ decided[a] = <<"expired">>
           /\ decided[b] \in {<<"approved">>, <<"denied">>}

\* C28: under human review a decision "approved" or "denied" is produced
\* only by the response of an identity on the configured allow-list, and the
\* response of any other identity changes nothing.
C28_OnlyReviewersDecide ==
    [][manager.kind = "Discord" =>
          \A id \in ApprovalIds :
              /\ /\ id \in DOMAIN decided
                 /\ decided'[id] # decided[id]
                 /\ decided'[id][Len(decided'[id])] \in {"approved", "denied"}
                 => \E who \in Reviewers :
                        on_response(id, who, decided'[id][Len(decided'[id])])
              /\ \A who \in Identities \ Reviewers,
                    signal \in {"approved", "denied"} :
                     on_response(id, who, signal) =>
                         UNCHANGED <<pending, decided, executed>>]_<<vars, limiter, serving>>

\* A request was posted and is still waiting when its timeout is due, and
\* another was decided by a reviewer before.
C28_Witness ==
    /\ manager.approver_ids = Reviewers
    /\ \E a \in DOMAIN pending, b \in DOMAIN decided :
           /\ pending[a].posted /\ ~pending[a].cancelled
           /\ monotonic = pending[a].deadline
           /\ decided[b] = <<"denied">>

\* C29: a response for one request id leaves every other request as it is:
\* its wait, its decisions and its operation.
C29_ResponsesAreIndependent ==
    [][\A id \in ApprovalIds, who \in Identities,
         signal \in {"approved", "denied"} :
          on_response(id, who, signal) =>
              \A other \in ApprovalIds \ {id} :
                  /\ other \in DOMAIN pending <=> other \in DOMAIN pending'
                  /\ other \in DOMAIN pending =>
                         pending'[other] = pending[other]
                  /\ other \in DOMAIN decided =>
                         decided'[other] = decided[other]
                  /\ \A op \in executed' \ executed :
                         op.approval # other]_<<vars, limiter, serving>>

\* One of two concurrent requests was approved and executed while the other
\* is still waiting, undecided.
C29_Witness ==
    \E a \in DOMAIN decided, b \in DOMAIN pending :
        /\ decided[a] = <<"approved">>
        /\ Operation("place_equity_order", a) \in executed
        /\ pending[b].posted /\ ~pending[b].cancelled
        /\ decided[b] = <<>>

\* C30: a pending request whose caller was cancelled, or that no reviewer
\* can answer, is in the end decided "expired" and removed from the pending
\* set; a response for an id that nobody waits for changes nothing.
C30_NoPendingLeak ==
    /\ \A id \in ApprovalIds :
           (IF id \in DOMAIN pending
            THEN pending[id].cancelled \/ ~pending[id].posted ELSE FALSE) ~>
               (IF id \in DOMAIN pending \/ id \notin DOMAIN decided
                THEN FALSE ELSE decided[id] = <<"expired">>)
    /\ [][\A id \in ApprovalIds, who \in Identities,
             signal \in {"approved", "denied"} :
              /\ id \notin DOMAIN pending \/ pending[id].cancelled
              /\ on_response(id, who, signal)
              => UNCHANGED <<pending, decided, executed, log>>]_<<vars, limiter, serving>>

\* The caller of a request was cancelled and the request is still pending
\* when its timeout is due, while an earlier request has expired and is
\* gone.
C30_Witness ==
    \E a \in DOMAIN pending, b \in DOMAIN decided :
        /\ pending[a].cancelled
        /\ monotonic = pending[a].deadline
        /\ decided[b] = <<"expired">>
        /\ b \notin DOMAIN pending

\* C31: a pending consent state stays bound to its authorization request:
\* as long as the state is in the store, no call changes the client id, the
\* redirect URI or the code challenge recorded under it.
C31_ConsentStateStaysBound ==
    [][\A i \in 1..Len(state_mapping), j \in 1..Len(state_mapping') :
          state_mapping'[j].state = state_mapping[i].state =>
              /\ state_mapping'[j].client_id = state_mapping[i].client_id
              /\ state_mapping'[j].redirect_uri = state_mapping[i].redirect_uri
              /\ state_mapping'[j].code_challenge =
                     state_mapping[i].code_challenge]_vars

\* C32: handle_consent mints an authorization code only when the submitted
\* action is exactly "approve"; every other action value, a missing one and
\* one of another case included, is a denial when the state is pending: it
\* consumes the state, redirects with access_denied and mints no code.
C32_OnlyApproveMintsCode ==
    [][\A s \in StateInputs, a \in FormActions :
          handle_consent(s, a) =>
              /\ MintedCodes # {} => (a = "approve" /\ s \in StateKeys)
              /\ (a # "approve" /\ s \in StateKeys) =>
                     /\ MintedCodes = {}
                     /\ minted'.code = minted.code
                     /\ s \notin StateKeys'
                     /\ response'.res = "302 access_denied"
              /\ (a = "approve" /\ s \in StateKeys) =>
                     /\ Cardinality(MintedCodes) = 1
                     /\ response'.res = "302 code"]_vars

\* A submission that was not an approval has consumed the only pending state
\* and no code has ever been minted.
C32_Witness ==
    /\ response.op = "handle_consent"
    /\ response.res = "302 access_denied"
    /\ state_mapping = <<>>
    /\ minted.code = 0
    /\ DOMAIN auth_codes = {}


\* The access token that was issued together with the refresh token rt.
PairedAccessToken(rt) == Str("smcp_at_", rt.token[2])

\* C33: the resource indicator of a grant is kept across refreshes: the
\* access token a refresh issues carries the resource indicator of the access
\* token that was issued together with the refresh token presented, and so,
\* refresh after refresh, that of the access token of the code exchange.
C33_RefreshKeepsResource ==
    [][\A t \in Tasks :
          (exchange_refresh_token(t) /\ response'.res = "OAuthToken") =>
              LET paired == PairedAccessToken(task[t].loaded) IN
              \A tok \in DOMAIN access_tokens' \ DOMAIN access_tokens :
                  paired \in DOMAIN access_tokens =>
                      access_tokens'[tok].resource =
                          access_tokens[paired].resource]_vars


\* The rule a window key belongs to.
RuleOf(key) == rules[CHOOSE i \in 1..Len(rules) : rules[i].path_prefix = key[2]]

\* The requests of a window key that were allowed in the interval (t - w, t].
AllowedWithin(key, t, w) ==
    SelectSeq(Past(key), LAMBDA h : ~h.limited /\ h.at > t - w /\ h.at <= t)

\* C34: after any sequence of requests every (client, rule) window holds at
\* most max_requests timestamps, and in every interval (t - window, t] at most
\* max_requests requests of that client were allowed under that rule.
C34_WindowNeverExceedsLimit ==
    /\ \A key \in DOMAIN windows :
           Len(windows[key]) <= RuleOf(key).max_requests
    /\ \A key \in DOMAIN history : \A t \in 0..monotonic :
           Len(AllowedWithin(key, t, RuleOf(key).window_seconds))
               <= RuleOf(key).max_requests

\* A client has filled the window of the first rule, was rejected inside
\* it and was allowed again once the window had moved on.
C34_Witness ==
    \E key \in DOMAIN history :
        /\ key[2] = rules[1].path_prefix
        /\ \E t \in 0..monotonic :
               Len(AllowedWithin(key, t, rules[1].window_seconds)) = MaxRequests
        /\ \E n \in 1..Len(history[key]) : history[key][n].limited
        /\ ~history[key][Len(history[key])].limited
        /\ Len(windows[key]) = 1


\* The key is rate limited at time t: a request of its client under its
\* rule would be rejected.
RateLimited(w, key, t) ==
    /\ key \in DOMAIN w
    /\ Limited(Recent(w[key], RuleOf(key), t), RuleOf(key))

\* C35: the stale-client sweep never resets an active limit: a request
\* removes no window but an empty one or one whose latest timestamp is older
\* than now - 2 * the largest window, so it removes no timestamp that is
\* still inside its rule's window, and a client that is rate limited before
\* the request is rate limited after it.
C35_SweepKeepsActiveLimits ==
    [][history' # history =>
          /\ \A key \in DOMAIN windows \ DOMAIN windows' :
                 /\ \/ windows[key] = <<>>
                    \/ windows[key][Len(windows[key])] < monotonic - 2 * MaxWindow
                 /\ Recent(windows[key], RuleOf(key), monotonic) = <<>>
          /\ \A key \in DOMAIN windows :
                 RateLimited(windows, key, monotonic) =>
                     RateLimited(windows', key, monotonic)]_<<vars, limiter>>

\* A sweep has removed the stale window of the first client while the
\* clients that came just before the sweep are still rate limited.
C35_Witness ==
    /\ Cardinality(DOMAIN history) > MAX_TRACKED_CLIENTS
    /\ <<Address(1), PathA>> \notin DOMAIN windows
    /\ RateLimited(windows, <<Address(2), PathA>>, monotonic)
    /\ RateLimited(windows, <<Address(MAX_TRACKED_CLIENTS), PathA>>, monotonic)


\* The decisions a sliding window of the rule gives for requests at the
\* given times, from an empty window: TRUE for a rejected request.
RECURSIVE Replay(_, _)
Replay(times, rule) ==
    IF times = <<>> THEN <<>>
    ELSE LET n == Len(times)
             before == Replay(SubSeq(times, 1, n - 1), rule)
             inside == {i \in 1..(n - 1) :
                           ~before[i] /\ times[i] > times[n] - rule.window_seconds}
         IN Append(before, Cardinality(inside) >= rule.max_requests)

\* C36: the decisions for one client address do not depend on the traffic
\* of any other client: the decision for a request of an address is the one
\* a sliding window gives for the times of that address's own requests under
\* the rule, whatever other clients have sent in between, so two runs that
\* agree on the address's requests agree on its decisions.
C36_DecisionsFromOwnRequests ==
    [][\A a \in Addresses, p \in Paths :
          call("http", <<a>>, p) =>
              \A i \in Checked(p) :
                  LET own == Times(Past(<<a, rules[i].path_prefix>>))
                      decisions == Replay(Append(own, monotonic), rules[i])
                  IN reply'.status =
                         IF decisions[Len(decisions)] THEN "429"
                                                       ELSE "forwarded"]_<<vars, limiter>>

\* An address has been rejected under the first rule, and a client without
\* address has been let through under the same rule at the same time.
C36_Witness ==
    \E a \in Addresses :
        LET mine == <<a, rules[1].path_prefix>>
            other == <<"unknown", rules[1].path_prefix>>
        IN /\ mine \in DOMAIN history
           /\ other \in DOMAIN history
           /\ history[mine][Len(history[mine])] =
                  [at |-> monotonic, limited |-> TRUE]
           /\ history[other][Len(history[other])] =
                  [at |-> monotonic, limited |-> FALSE]


\* What a start under the given bypass flag may leave as the manager.
WriteAccessSound(bypass) ==
    /\ manager'.allow_write =>
           \/ bypass
           \/ manager'.kind = "Discord" /\ manager'.approver_ids # {}
    /\ (manager'.kind = "NoOp" /\ manager'.allow_write) => bypass
    /\ bypass => (manager'.kind = "NoOp" /\ manager'.allow_write)

\* C37: under every configuration the remote server and the CLI server
\* command accept, write tools are registered only when allow_write is true;
\* allow_write is true only when the bypass flag is set or a human-review
\* manager with at least one approver was built; the auto-approve manager
\* comes with allow_write only under the bypass flag; and the bypass flag
\* wins over any Discord setting.
C37_WriteToolsNeedApproval ==
    /\ [](mounted =>
             \A tool \in DOMAIN register(manager.allow_write) :
                 tool \in WRITE_TOOLS => manager.allow_write)
    /\ [][/\ \A config \in RemoteConfigs :
                lifespan(config) =>
                    WriteAccessSound(config.jesus_take_the_wheel)
          /\ \A flags \in CliFlags :
                (server(flags) /\ mounted') =>
                    WriteAccessSound(flags.jesus_take_the_wheel)
         ]_<<vars, limiter, serving>>

\* The CLI command has rejected Discord settings, then a server was started
\* under the bypass flag and has executed a write tool.
C37_Witness ==
    /\ response = Resp("server", "return 1")
    /\ mounted
    /\ manager.kind = "NoOp"
    /\ manager.allow_write
    /\ \E op \in executed : op.tool \in WRITE_TOOLS


\* C38: each state schwab_auth_start issues is accepted by the callback at
\* most once: a callback with a code and a stored state removes the state,
\* whether or not the exchange gives a token; a callback with a state that
\* is not stored, so every later callback with the same state, gets the 400
\* missing-or-expired response and writes no token; a callback without a code
\* leaves the store as it was; a state that was removed never comes back, and
\* no state has two tokens written for it.
C38_StateAcceptedOnce ==
    /\ [](\A i, j \in 1..Len(written) :
              written[i].state = written[j].state => i = j)
    /\ [][/\ \A code \in CallbackCodes, s \in StateInputs, outcome \in ExchangeOutcomes :
                schwab_callback(code, s, outcome) =>
                    IF code = None
                    THEN /\ response' = Resp("schwab_callback", "400 no code")
                         /\ UNCHANGED <<oauth_state, written>>
                    ELSE IF s \in DOMAIN oauth_state
                    THEN /\ s \notin DOMAIN oauth_state'
                         /\ response'.res \in {"200", "500"}
                         /\ \A n \in (Len(written) + 1)..Len(written') :
                                written'[n].state = s
                    ELSE /\ response' =
                                Resp("schwab_callback", "400 state missing or expired")
                         /\ UNCHANGED <<oauth_state, written>>
          /\ \A s \in DOMAIN oauth_state' \ DOMAIN oauth_state :
                s \notin Built("hex", "hex")
         ]_<<vars, limiter, serving>>

\* The token of an issued state has been written, the state is gone, and a
\* later callback with a code got the missing-or-expired response.
C38_Witness ==
    /\ Len(written) = 1
    /\ written[1].state \in Built("hex", "hex")
    /\ written[1].state \notin DOMAIN oauth_state
    /\ response = Resp("schwab_callback", "400 state missing or expired")

\* C39: a callback that presents a state issued more than
\* _OAUTH_STATE_TTL_SECONDS earlier is rejected as missing or expired and
\* writes no token.
C39_ExpiredStateRejected ==
    [][\A code \in CallbackCodes \ {None}, s \in StateInputs, outcome \in ExchangeOutcomes :
          (/\ schwab_callback(code, s, outcome)
           /\ s \in DOMAIN oauth_state
           /\ now - oauth_state[s].timestamp > Seconds(OAUTH_STATE_TTL_SECONDS)) =>
              /\ response' = Resp("schwab_callback", "400 state missing or expired")
              /\ written' = written]_<<vars, limiter, serving>>


=============================================================================
